---- MODULE Spec2Model ----
(***************************************************************************)
(* A model of deno_lockfile's Lockfile facade (src/src/lockfile.rs): the   *)
(* lockfile content, the dirty flag, the retained source text, the         *)
(* mutators, set_workspace_config with its package pruning, and            *)
(* resolve_write_bytes.                                                    *)
(*                                                                         *)
(* Strings are sequences of one-character strings, so that starts_with,    *)
(* strip_prefix, find('@') and the BTreeMap key order are computed the way *)
(* the code computes them.  A text (the lockfile's source, the output of   *)
(* to_json) is a sequence of tokens.                                       *)
(***************************************************************************)
EXTENDS Integers, Sequences, FiniteSets, TLC

VARIABLES
  overwrite,            \* Lockfile.overwrite
  has_content_changed,  \* Lockfile.has_content_changed
  content,              \* Lockfile.content (a LockfileContent)
  original_content,     \* Lockfile.original_content (always Some in this code)
  failure,              \* NoFailure, or the error / panic that ended the program
  last,                 \* the last call made and what it returned
  constructor,          \* history: the constructor called and its overwrite
  source,               \* history: the text the constructor was given
  writes,               \* history: how often resolve_write_bytes returned bytes
  unwritten,            \* history: the kinds of call that changed a stored value
                        \* since the last returned bytes
  ops                   \* number of calls made so far

vars == << overwrite, has_content_changed, content, original_content,
           failure, last, constructor, source, writes, unwritten, ops >>

\* Bound on the number of facade calls in one behaviour.
MaxOps == 4

-----------------------------------------------------------------------------
(* Strings *)

\* The characters used, in byte order (the order of str's Ord).
ByteOrder == << "-", ".", "/", "0", "1", "2", "3", "4", ":", "@", "^",
                "a", "b", "c", "d", "e", "f", "g", "h", "i", "j", "k", "l",
                "m", "n", "o", "p", "q", "r", "s", "t", "u", "v", "w", "x",
                "y", "z" >>

Byte(c) == CHOOSE i \in 1..Len(ByteOrder) : ByteOrder[i] = c

\* str's Ord: lexicographic by byte, a proper prefix first.
RECURSIVE StrLess(_, _)
StrLess(a, b) ==
  IF b = << >> THEN FALSE
  ELSE IF a = << >> THEN TRUE
  ELSE IF Head(a) = Head(b) THEN StrLess(Tail(a), Tail(b))
  ELSE Byte(Head(a)) < Byte(Head(b))

\* str::starts_with
StartsWith(s, prefix) ==
  /\ Len(s) >= Len(prefix)
  /\ SubSeq(s, 1, Len(prefix)) = prefix

\* str::strip_prefix: [some |-> BOOLEAN, s |-> the rest]
StripPrefix(s, prefix) ==
  IF StartsWith(s, prefix)
    THEN [some |-> TRUE, s |-> SubSeq(s, Len(prefix) + 1, Len(s))]
    ELSE [some |-> FALSE, s |-> << >>]

NpmPrefix == << "n", "p", "m", ":" >>
JsrPrefix == << "j", "s", "r", ":" >>

-----------------------------------------------------------------------------
(* BTreeMap / BTreeSet *)

EmptyMap == << >>

\* BTreeMap::insert
MapInsert(m, k, v) ==
  [x \in DOMAIN m \cup {k} |-> IF x = k THEN v ELSE m[x]]

\* BTreeMap::remove
MapRemove(m, k) == [x \in DOMAIN m \ {k} |-> m[x]]

\* The map restricted to the keys in keep.
MapRestrict(m, keep) == [x \in DOMAIN m \cap keep |-> m[x]]

\* The values of a map.
MapValues(m) == {m[k] : k \in DOMAIN m}

\* The least string of a non-empty set.
MinStr(S) == CHOOSE x \in S : \A y \in S \ {x} : StrLess(x, y)

\* SortedSeq that goes from the greatest string to the least.
RECURSIVE SortedSeq_Descending(_)
SortedSeq_Descending(S) ==
  IF S = {} THEN << >>
  ELSE LET x == MinStr(S) IN SortedSeq_Descending(S \ {x}) \o << x >>

\* Iteration order of a BTreeSet<String> / the keys of a BTreeMap<String, _>.
RECURSIVE SortedSeq(_)
SortedSeq(S) ==
  IF S = {} THEN << >>
  ELSE LET x == MinStr(S) IN << x >> \o SortedSeq(S \ {x})

-----------------------------------------------------------------------------
(* Texts and JSON values (serde_json) *)

\* A text is a sequence of tokens: punctuation, a quoted string, white space,
\* a line end.
Tok(p) == [p |-> p, s |-> << >>]
TStr(s) == [p |-> "s", s |-> s]
LBrace == Tok("{")
RBrace == Tok("}")
LBracket == Tok("[")
RBracket == Tok("]")
WS == Tok("ws")
NL == Tok("nl")

\* serde_json::Value
JStr(s) == [t |-> "str", s |-> s, m |-> << >>, a |-> << >>]
JObj(m) == [t |-> "obj", s |-> << >>, m |-> m, a |-> << >>]
JArr(a) == [t |-> "arr", s |-> << >>, m |-> << >>, a |-> a]
JBad == [t |-> "bad", s |-> << >>, m |-> << >>, a |-> << >>]

IsObj(v) == v.t = "obj"
IsStr(v) == v.t = "str"
IsArr(v) == v.t = "arr"

\* Map::get / Map::contains_key on a JSON object's members
Has(m, k) == k \in DOMAIN m

\* The parser: [v |-> the value read (JBad when malformed), next |-> the index
\* of the first token after it].
RECURSIVE ParseValue(_, _), ParseMembers(_, _, _), ParseElements(_, _, _)
ParseValue(toks, i) ==
  IF i > Len(toks) THEN [v |-> JBad, next |-> i]
  ELSE IF toks[i].p = "s" THEN [v |-> JStr(toks[i].s), next |-> i + 1]
  ELSE IF toks[i].p = "{" THEN ParseMembers(toks, i + 1, EmptyMap)
  ELSE IF toks[i].p = "[" THEN ParseElements(toks, i + 1, << >>)
  ELSE [v |-> JBad, next |-> i]

ParseMembers(toks, i, m) ==
  IF i > Len(toks) THEN [v |-> JBad, next |-> i]
  ELSE IF toks[i].p = "}" THEN [v |-> JObj(m), next |-> i + 1]
  ELSE IF toks[i].p # "s" THEN [v |-> JBad, next |-> i]
  ELSE LET r == ParseValue(toks, i + 1) IN
       IF r.v.t = "bad" THEN r
       ELSE ParseMembers(toks, r.next, MapInsert(m, toks[i].s, r.v))

ParseElements(toks, i, a) ==
  IF i > Len(toks) THEN [v |-> JBad, next |-> i]
  ELSE IF toks[i].p = "]" THEN [v |-> JArr(a), next |-> i + 1]
  ELSE LET r == ParseValue(toks, i) IN
       IF r.v.t = "bad" THEN r
       ELSE ParseElements(toks, r.next, Append(a, r.v))

NotLayout(tok) == tok.p \notin {"ws", "nl"}

\* serde_json::from_str::<Map<String, Value>>: the object the text holds, or
\* JBad when the text is no single JSON object.
ParseJsonMap(text) ==
  LET toks == SelectSeq(text, NotLayout)
      r == ParseValue(toks, 1)
  IN IF r.v.t = "obj" /\ r.next = Len(toks) + 1 THEN r.v ELSE JBad

-----------------------------------------------------------------------------
(* The keys of the lockfile's JSON *)

KVersion == << "v", "e", "r", "s", "i", "o", "n" >>
KSpecifiers == << "s", "p", "e", "c", "i", "f", "i", "e", "r", "s" >>
KJsr == << "j", "s", "r" >>
KNpm == << "n", "p", "m" >>
KRedirects == << "r", "e", "d", "i", "r", "e", "c", "t", "s" >>
KRemote == << "r", "e", "m", "o", "t", "e" >>
KWorkspace == << "w", "o", "r", "k", "s", "p", "a", "c", "e" >>
KPackages == << "p", "a", "c", "k", "a", "g", "e", "s" >>
KIntegrity == << "i", "n", "t", "e", "g", "r", "i", "t", "y" >>
KDependencies == << "d", "e", "p", "e", "n", "d", "e", "n", "c", "i", "e", "s" >>
KPackageJson == << "p", "a", "c", "k", "a", "g", "e", "J", "s", "o", "n" >>
KMembers == << "m", "e", "m", "b", "e", "r", "s" >>

V2 == << "2" >>
V3 == << "3" >>
V4 == << "4" >>
At == << "@" >>

-----------------------------------------------------------------------------
(* LockfileContent *)

\* WorkspaceMemberConfigContent: its dependencies and its package.json's.
EmptyMember == [dependencies |-> {}, package_json |-> {}]

\* WorkspaceConfigContent::default
EmptyWorkspace == [root |-> EmptyMember, members |-> EmptyMap]

\* WorkspaceMemberConfigContent::is_empty
MemberIsEmpty(member) == member.dependencies = {} /\ member.package_json = {}

\* WorkspaceConfigContent::is_empty
WorkspaceIsEmpty(w) == MemberIsEmpty(w.root) /\ DOMAIN w.members = {}

\* WorkspaceConfigContent::get_all_dep_reqs
get_all_dep_reqs(w) ==
  w.root.dependencies \cup w.root.package_json
    \cup UNION {w.members[k].dependencies \cup w.members[k].package_json :
                  k \in DOMAIN w.members}

\* LockfileContent::empty with the version of the format before.
LockfileContent_empty_V3 ==
  [version |-> V3, specifiers |-> EmptyMap, jsr |-> EmptyMap, npm |-> EmptyMap,
   redirects |-> EmptyMap, remote |-> EmptyMap, workspace |-> EmptyWorkspace]

\* LockfileContent::empty
LockfileContent_empty ==
  [version |-> V4, specifiers |-> EmptyMap, jsr |-> EmptyMap, npm |-> EmptyMap,
   redirects |-> EmptyMap, remote |-> EmptyMap, workspace |-> EmptyWorkspace]

\* LockfileContent::is_empty that leaves the workspace out.
LockfileContent_is_empty_WithoutWorkspace(c) ==
  /\ DOMAIN c.jsr = {}
  /\ DOMAIN c.npm = {}
  /\ DOMAIN c.specifiers = {}
  /\ DOMAIN c.redirects = {}
  /\ DOMAIN c.remote = {}

\* LockfileContent::is_empty
LockfileContent_is_empty(c) ==
  /\ DOMAIN c.jsr = {}
  /\ DOMAIN c.npm = {}
  /\ DOMAIN c.specifiers = {}
  /\ DOMAIN c.redirects = {}
  /\ DOMAIN c.remote = {}
  /\ WorkspaceIsEmpty(c.workspace)

-----------------------------------------------------------------------------
(* LockfileContent::from_json *)

\* The first position from `from` on at which s holds an '@', or 0.
FindAt(s, from) ==
  IF \E i \in from..Len(s) : s[i] = "@"
    THEN CHOOSE i \in from..Len(s) :
           s[i] = "@" /\ \A j \in from..(i - 1) : s[j] # "@"
    ELSE 0

\* fn extract_nv_from_id: name and version around the first '@' after the
\* first character.
extract_nv_from_id(value) ==
  LET at == IF value = << >> THEN 0 ELSE FindAt(value, 2) IN
  IF at = 0 THEN [some |-> FALSE, name |-> << >>, version |-> << >>]
  ELSE [some |-> TRUE, name |-> SubSeq(value, 1, at - 1),
        version |-> SubSeq(value, at + 1, Len(value))]

\* The length of `jsr:@` / `npm:@`.
PrefixLen == 5

\* split_pkg_req that splits a value of any length.
split_pkg_req_AnyLength(value) ==
  LET at == FindAt(value, PrefixLen + 1) IN
  IF at = 0
    THEN [some |-> TRUE, name |-> value, has_req |-> FALSE, req |-> << >>]
    ELSE [some |-> TRUE, name |-> SubSeq(value, 1, at - 1),
          has_req |-> TRUE, req |-> SubSeq(value, at + 1, Len(value))]

\* fn split_pkg_req: the name and, if there is one, the version requirement.
split_pkg_req(value) ==
  IF Len(value) < PrefixLen
    THEN [some |-> FALSE, name |-> << >>, has_req |-> FALSE, req |-> << >>]
  ELSE LET at == FindAt(value, PrefixLen + 1) IN
       IF at = 0
         THEN [some |-> TRUE, name |-> value, has_req |-> FALSE, req |-> << >>]
         ELSE [some |-> TRUE, name |-> SubSeq(value, 1, at - 1),
               has_req |-> TRUE, req |-> SubSeq(value, at + 1, Len(value))]

\* A JSON array of strings as a sequence of strings.
StrSeq(arr) == [i \in 1..Len(arr) |-> arr[i].s]
IsStrArr(v) == IsArr(v) /\ \A i \in 1..Len(v.a) : IsStr(v.a[i])
IsStrMap(v) == IsObj(v) /\ \A k \in DOMAIN v.m : IsStr(v.m[k])

\* fn deserialize_section::<BTreeMap<String, String>>
DeserializeStringMap(json, key) ==
  IF ~Has(json, key) THEN [ok |-> TRUE, v |-> EmptyMap]
  ELSE IF IsStrMap(json[key])
    THEN [ok |-> TRUE, v |-> [k \in DOMAIN json[key].m |-> json[key].m[k].s]]
    ELSE [ok |-> FALSE, v |-> EmptyMap]

\* RawNpmPackageInfo / RawJsrPackageInfo: integrity, and the dependencies as
\* a list of strings (absent: empty).
IsRawPackage(v) ==
  /\ IsObj(v)
  /\ Has(v.m, KIntegrity) /\ IsStr(v.m[KIntegrity])
  /\ Has(v.m, KDependencies) => IsStrArr(v.m[KDependencies])

RawPackage(v) ==
  [integrity |-> v.m[KIntegrity].s,
   dependencies |-> IF Has(v.m, KDependencies)
                      THEN StrSeq(v.m[KDependencies].a) ELSE << >>]

\* fn deserialize_section::<BTreeMap<String, Raw*PackageInfo>>
DeserializeRawPackages(json, key) ==
  IF ~Has(json, key) THEN [ok |-> TRUE, v |-> EmptyMap]
  ELSE IF IsObj(json[key]) /\ \A k \in DOMAIN json[key].m : IsRawPackage(json[key].m[k])
    THEN [ok |-> TRUE, v |-> [k \in DOMAIN json[key].m |-> RawPackage(json[key].m[k])]]
    ELSE [ok |-> FALSE, v |-> EmptyMap]

StrSet(seq) == {seq[i] : i \in 1..Len(seq)}

\* A workspace member's JSON: dependencies, packageJson.dependencies.
IsMemberJson(m) ==
  /\ Has(m, KDependencies) => IsStrArr(m[KDependencies])
  /\ Has(m, KPackageJson) =>
       /\ IsObj(m[KPackageJson])
       /\ Has(m[KPackageJson].m, KDependencies) =>
            IsStrArr(m[KPackageJson].m[KDependencies])

MemberOfJson(m) ==
  [dependencies |-> IF Has(m, KDependencies)
                      THEN StrSet(StrSeq(m[KDependencies].a)) ELSE {},
   package_json |-> IF Has(m, KPackageJson) /\ Has(m[KPackageJson].m, KDependencies)
                      THEN StrSet(StrSeq(m[KPackageJson].m[KDependencies].a))
                      ELSE {}]

\* fn deserialize_section::<WorkspaceConfigContent>: the root member's fields
\* lie flat beside `members`.
DeserializeWorkspace(json, key) ==
  IF ~Has(json, key) THEN [ok |-> TRUE, v |-> EmptyWorkspace]
  ELSE LET w == json[key] IN
    IF /\ IsObj(w)
       /\ IsMemberJson(w.m)
       /\ Has(w.m, KMembers) =>
            /\ IsObj(w.m[KMembers])
            /\ \A k \in DOMAIN w.m[KMembers].m :
                 IsObj(w.m[KMembers].m[k]) /\ IsMemberJson(w.m[KMembers].m[k].m)
    THEN [ok |-> TRUE,
          v |-> [root |-> MemberOfJson(w.m),
                 members |-> IF Has(w.m, KMembers)
                   THEN [k \in DOMAIN w.m[KMembers].m |->
                           MemberOfJson(w.m[KMembers].m[k].m)]
                   ELSE EmptyMap]]
    ELSE [ok |-> FALSE, v |-> EmptyWorkspace]

\* The greatest string of a non-empty set.
MaxStr(S) == CHOOSE x \in S : \A y \in S \ {x} : StrLess(y, x)

\* version_by_dep_name: the keys are visited in order and a later key replaces
\* an earlier one of the same name.
VersionByDepName(ids) ==
  LET names == {extract_nv_from_id(id).name : id \in ids} IN
  [n \in names |->
     extract_nv_from_id(MaxStr({id \in ids : extract_nv_from_id(id).name = n})).version]

\* One raw npm dependency: the key and the id it stands for, or the error.
NpmDependency(dep, version_by_dep_name) ==
  LET nv == extract_nv_from_id(dep)
      left == IF nv.some THEN nv.name ELSE dep
      right == IF nv.some THEN nv.version ELSE version_by_dep_name[dep]
      alias == StripPrefix(right, NpmPrefix)
      inner == extract_nv_from_id(alias.s)
  IN IF ~nv.some /\ dep \notin DOMAIN version_by_dep_name
       THEN [err |-> "MissingPackage", key |-> << >>, id |-> << >>]
     ELSE IF alias.some
       THEN IF inner.some
              THEN [err |-> "none", key |-> left,
                    id |-> inner.name \o At \o inner.version]
              ELSE [err |-> "InvalidNpmPackageDependency", key |-> << >>, id |-> << >>]
     ELSE [err |-> "none", key |-> left, id |-> left \o At \o right]

\* The dependencies of one raw npm package, in order, up to the first error.
RECURSIVE NpmDependencies(_, _, _)
NpmDependencies(deps, version_by_dep_name, acc) ==
  IF deps = << >> THEN [err |-> "none", v |-> acc]
  ELSE LET d == NpmDependency(Head(deps), version_by_dep_name) IN
       IF d.err # "none" THEN [err |-> d.err, v |-> EmptyMap]
       ELSE NpmDependencies(Tail(deps), version_by_dep_name,
                            MapInsert(acc, d.key, d.id))

\* The npm packages of the raw ones, key by key in order, up to the first error.
RECURSIVE NpmPackages(_, _, _, _)
NpmPackages(keys, raw_npm, version_by_dep_name, acc) ==
  IF keys = << >> THEN [err |-> "none", v |-> acc]
  ELSE LET key == Head(keys)
           deps == NpmDependencies(raw_npm[key].dependencies,
                                   version_by_dep_name, EmptyMap)
       IN IF deps.err # "none" THEN [err |-> deps.err, v |-> EmptyMap]
          ELSE NpmPackages(Tail(keys), raw_npm, version_by_dep_name,
                 MapInsert(acc, key, [integrity |-> raw_npm[key].integrity,
                                      dependencies |-> deps.v]))

\* from_json's npm part.
NpmOfRaw(raw_npm) ==
  IF DOMAIN raw_npm = {} THEN [err |-> "none", v |-> EmptyMap]
  ELSE IF \E id \in DOMAIN raw_npm : ~extract_nv_from_id(id).some
    THEN [err |-> "InvalidNpmPackageId", v |-> EmptyMap]
  ELSE NpmPackages(SortedSeq(DOMAIN raw_npm), raw_npm,
                   VersionByDepName(DOMAIN raw_npm), EmptyMap)

\* to_resolved_specifiers in which the last specifier of a name wins.
ToResolvedSpecifiers_LastWins(specifiers) ==
  LET keys == DOMAIN specifiers
      with_req == {k \in keys : split_pkg_req(k).has_req}
      names == {split_pkg_req(k).name : k \in with_req} \ keys
  IN [x \in keys \cup names |->
        IF x \in keys THEN [some |-> FALSE, s |-> << >>]
        ELSE [some |-> TRUE,
              s |-> MaxStr({k \in with_req : split_pkg_req(k).name = x})]]

\* to_resolved_specifiers: every specifier maps to "leave alone"; the name of a
\* specifier with a version requirement, when it is no specifier itself, maps
\* to the first specifier of that name with a requirement.
ToResolvedSpecifiers(specifiers) ==
  LET keys == DOMAIN specifiers
      with_req == {k \in keys : split_pkg_req(k).has_req}
      names == {split_pkg_req(k).name : k \in with_req} \ keys
  IN [x \in keys \cup names |->
        IF x \in keys THEN [some |-> FALSE, s |-> << >>]
        ELSE [some |-> TRUE,
              s |-> MinStr({k \in with_req : split_pkg_req(k).name = x})]]

\* from_json's jsr part.
JsrOfRaw(raw_jsr, specifiers) ==
  IF DOMAIN raw_jsr = {} THEN [err |-> "none", v |-> EmptyMap]
  ELSE IF \E k \in DOMAIN specifiers : ~split_pkg_req(k).some
    THEN [err |-> "InvalidPackageSpecifier", v |-> EmptyMap]
  ELSE LET to_resolved_specifiers == ToResolvedSpecifiers(specifiers)
           Resolve(dep) == IF to_resolved_specifiers[dep].some
                             THEN to_resolved_specifiers[dep].s ELSE dep
       IN IF \E key \in DOMAIN raw_jsr :
               \E dep \in StrSet(raw_jsr[key].dependencies) :
                 dep \notin DOMAIN to_resolved_specifiers
            THEN [err |-> "panic: not yet implemented", v |-> EmptyMap]
          ELSE [err |-> "none",
                v |-> [key \in DOMAIN raw_jsr |->
                         [integrity |-> raw_jsr[key].integrity,
                          dependencies |->
                            {Resolve(dep) : dep \in StrSet(raw_jsr[key].dependencies)}]]]

FromJsonError(e) == [err |-> e, content |-> LockfileContent_empty]

\* LockfileContent::from_json: [err |-> "none" or the error, content |-> ...].
LockfileContent_from_json(value) ==
  IF ~IsObj(value) THEN [err |-> "none", content |-> LockfileContent_empty]
  ELSE
    LET json == value.m
        specifiers == DeserializeStringMap(json, KSpecifiers)
        raw_npm == DeserializeRawPackages(json, KNpm)
        npm == NpmOfRaw(raw_npm.v)
        raw_jsr == DeserializeRawPackages(json, KJsr)
        jsr == JsrOfRaw(raw_jsr.v, specifiers.v)
        redirects == DeserializeStringMap(json, KRedirects)
        remote == DeserializeStringMap(json, KRemote)
        workspace == DeserializeWorkspace(json, KWorkspace)
    IN IF ~specifiers.ok THEN FromJsonError("FailedDeserializing")
       ELSE IF ~raw_npm.ok THEN FromJsonError("FailedDeserializing")
       ELSE IF npm.err # "none" THEN FromJsonError(npm.err)
       ELSE IF ~raw_jsr.ok THEN FromJsonError("FailedDeserializing")
       ELSE IF jsr.err # "none" THEN FromJsonError(jsr.err)
       ELSE IF ~redirects.ok \/ ~remote.ok \/ ~workspace.ok
         THEN FromJsonError("FailedDeserializing")
       ELSE [err |-> "none",
             content |->
               [version |-> IF Has(json, KVersion) /\ IsStr(json[KVersion])
                              THEN json[KVersion].s ELSE V3,
                specifiers |-> specifiers.v,
                jsr |-> jsr.v,
                npm |-> npm.v,
                redirects |-> redirects.v,
                remote |-> remote.v,
                workspace |-> workspace.v]]

-----------------------------------------------------------------------------
(* The printer of the version 4 format *)

RECURSIVE Flatten(_)
Flatten(seqs) == IF seqs = << >> THEN << >> ELSE Head(seqs) \o Flatten(Tail(seqs))

\* An array of strings, in the given order.
PrintStrArr(strs) ==
  << LBracket >> \o [i \in 1..Len(strs) |-> TStr(strs[i])] \o << RBracket >>

\* An object: the keys in order, each followed by what Value(_) prints of its
\* value.
PrintMap(m, Value(_)) ==
  LET keys == SortedSeq(DOMAIN m) IN
  << LBrace >>
    \o Flatten([i \in 1..Len(keys) |-> << TStr(keys[i]) >> \o Value(m[keys[i]])])
    \o << RBrace >>

PrintStr(s) == << TStr(s) >>

\* A dependency of an npm package as the format writes it: the id, or
\* `key@npm:id` when the key is not the package's name.
PrintNpmDependency(key, id) ==
  IF extract_nv_from_id(id).name = key THEN id ELSE key \o At \o NpmPrefix \o id

PrintNpmPackage(pkg) ==
  LET keys == SortedSeq(DOMAIN pkg.dependencies) IN
  << LBrace, TStr(KIntegrity), TStr(pkg.integrity) >>
    \o (IF keys = << >> THEN << >>
        ELSE << TStr(KDependencies) >>
               \o PrintStrArr([i \in 1..Len(keys) |->
                    PrintNpmDependency(keys[i], pkg.dependencies[keys[i]])]))
    \o << RBrace >>

PrintJsrPackage(pkg) ==
  << LBrace, TStr(KIntegrity), TStr(pkg.integrity) >>
    \o (IF pkg.dependencies = {} THEN << >>
        ELSE << TStr(KDependencies) >> \o PrintStrArr(SortedSeq(pkg.dependencies)))
    \o << RBrace >>

\* The fields of a workspace member, without the braces around them.
PrintMemberFields(member) ==
  (IF member.dependencies = {} THEN << >>
   ELSE << TStr(KDependencies) >> \o PrintStrArr(SortedSeq(member.dependencies)))
  \o (IF member.package_json = {} THEN << >>
      ELSE << TStr(KPackageJson), LBrace, TStr(KDependencies) >>
             \o PrintStrArr(SortedSeq(member.package_json)) \o << RBrace >>)

PrintMember(member) == << LBrace >> \o PrintMemberFields(member) \o << RBrace >>

PrintWorkspace(w) ==
  << LBrace >> \o PrintMemberFields(w.root)
    \o (IF DOMAIN w.members = {} THEN << >>
        ELSE << TStr(KMembers) >> \o PrintMap(w.members, PrintMember))
    \o << RBrace >>

\* PrintSection that prints a section that is empty too.
PrintSection_Always(key, empty, printed) == << TStr(key) >> \o printed

\* A section: nothing when `empty`, else the key and the printed value.
PrintSection(key, empty, printed) ==
  IF empty THEN << >> ELSE << TStr(key) >> \o printed

\* print_v4_content that prints npm before jsr.
print_v4_content_NpmBeforeJsr(c) ==
  << LBrace, TStr(KVersion), TStr(V4) >>
    \o PrintSection(KSpecifiers, DOMAIN c.specifiers = {}, PrintMap(c.specifiers, PrintStr))
    \o PrintSection(KNpm, DOMAIN c.npm = {}, PrintMap(c.npm, PrintNpmPackage))
    \o PrintSection(KJsr, DOMAIN c.jsr = {}, PrintMap(c.jsr, PrintJsrPackage))
    \o PrintSection(KRedirects, DOMAIN c.redirects = {}, PrintMap(c.redirects, PrintStr))
    \o PrintSection(KRemote, DOMAIN c.remote = {}, PrintMap(c.remote, PrintStr))
    \o PrintSection(KWorkspace, WorkspaceIsEmpty(c.workspace), PrintWorkspace(c.workspace))
    \o << RBrace, NL >>

\* printer::print_v4_content
print_v4_content(c) ==
  << LBrace, TStr(KVersion), TStr(V4) >>
    \o PrintSection(KSpecifiers, DOMAIN c.specifiers = {}, PrintMap(c.specifiers, PrintStr))
    \o PrintSection(KJsr, DOMAIN c.jsr = {}, PrintMap(c.jsr, PrintJsrPackage))
    \o PrintSection(KNpm, DOMAIN c.npm = {}, PrintMap(c.npm, PrintNpmPackage))
    \o PrintSection(KRedirects, DOMAIN c.redirects = {}, PrintMap(c.redirects, PrintStr))
    \o PrintSection(KRemote, DOMAIN c.remote = {}, PrintMap(c.remote, PrintStr))
    \o PrintSection(KWorkspace, WorkspaceIsEmpty(c.workspace), PrintWorkspace(c.workspace))
    \o << RBrace, NL >>

\* LockfileContent::to_json
LockfileContent_to_json(c) == print_v4_content(c)

-----------------------------------------------------------------------------
(* The transforms of the older formats *)

\* transforms::transform1_to_2: the map of URLs becomes `remote`.
transform1_to_2(json) ==
  MapInsert(MapInsert(MapInsert(EmptyMap,
      KRemote, JObj(json)),
      KNpm, JObj(MapInsert(MapInsert(EmptyMap,
              KSpecifiers, JObj(EmptyMap)), KPackages, JObj(EmptyMap)))),
      KVersion, JStr(V2))

\* The npm specifiers of version 2 as version 3 writes them.
PrefixedSpecifiers(specifiers) ==
  LET strs == {k \in DOMAIN specifiers : IsStr(specifiers[k])} IN
  [x \in {NpmPrefix \o k : k \in strs} |->
     JStr(NpmPrefix \o specifiers[SubSeq(x, Len(NpmPrefix) + 1, Len(x))].s)]

\* transforms::transform2_to_3: `npm.packages` and `npm.specifiers` become
\* `packages.npm` and `packages.specifiers`.
transform2_to_3(json) ==
  LET tagged == MapInsert(json, KVersion, JStr(V3)) IN
  IF ~(Has(json, KNpm) /\ IsObj(json[KNpm])) THEN tagged
  ELSE LET npm == json[KNpm].m
           with_npm == IF Has(npm, KPackages)
                         THEN MapInsert(EmptyMap, KNpm, npm[KPackages])
                         ELSE EmptyMap
           specifiers == IF Has(npm, KSpecifiers) /\ IsObj(npm[KSpecifiers])
                           THEN PrefixedSpecifiers(npm[KSpecifiers].m)
                           ELSE EmptyMap
           packages == IF DOMAIN specifiers = {} THEN with_npm
                       ELSE MapInsert(with_npm, KSpecifiers, JObj(specifiers))
       IN MapInsert(MapRemove(tagged, KNpm), KPackages, JObj(packages))

\* An npm package of version 3 with its dependencies, an object there, as the
\* list version 4 holds.
NpmPackage3To4(pkg) ==
  IF ~(IsObj(pkg) /\ Has(pkg.m, KDependencies) /\ IsStrMap(pkg.m[KDependencies]))
    THEN pkg
  ELSE LET deps == pkg.m[KDependencies].m
           keys == SortedSeq(DOMAIN deps)
       IN JObj(MapInsert(pkg.m, KDependencies,
                 JArr([i \in 1..Len(keys) |->
                         JStr(PrintNpmDependency(keys[i], deps[keys[i]].s))])))

\* transforms::transform3_to_4: `packages.{specifiers,npm,jsr}` move to the
\* top level.  [ok |-> FALSE] when `packages` is no object.
transform3_to_4(json) ==
  LET tagged == MapInsert(json, KVersion, JStr(V4)) IN
  IF ~Has(json, KPackages) THEN [ok |-> TRUE, json |-> tagged]
  ELSE IF ~IsObj(json[KPackages]) THEN [ok |-> FALSE, json |-> EmptyMap]
  ELSE LET packages == json[KPackages].m
           moved == {KSpecifiers, KNpm, KJsr} \cap DOMAIN packages
           Moved(k) == IF k = KNpm /\ IsObj(packages[k])
                         THEN JObj([id \in DOMAIN packages[k].m |->
                                      NpmPackage3To4(packages[k].m[id])])
                         ELSE packages[k]
       IN [ok |-> TRUE,
           json |-> [k \in (DOMAIN tagged \ {KPackages}) \cup moved |->
                       IF k \in moved THEN Moved(k) ELSE tagged[k]]]

-----------------------------------------------------------------------------
(* WorkspaceConfig *)

\* WorkspaceMemberConfig::default
EmptyMemberConfig == [dependencies |-> {}, package_json_deps |-> {}]

\* One member of the config to record: with no_config the recorded
\* dependencies stand in for an empty set given, and with no_config or no_npm
\* the recorded package.json dependencies do.
MemberConfig(given, recorded, options) ==
  [dependencies |->
     IF options.no_config /\ given.dependencies = {}
       THEN recorded.dependencies ELSE given.dependencies,
   package_json_deps |->
     IF (options.no_config \/ options.no_npm) /\ given.package_json_deps = {}
       THEN recorded.package_json ELSE given.package_json_deps]

\* WorkspaceConfig::new that records the config as given, whatever the options.
WorkspaceConfig_new_AsGiven(options, current) == options.config

\* WorkspaceConfig::new: the config to record, given the options and the
\* workspace recorded so far.
WorkspaceConfig_new(options, current) ==
  LET given == options.config
      Given(k) == IF k \in DOMAIN given.members
                    THEN given.members[k] ELSE EmptyMemberConfig
      Recorded(k) == IF k \in DOMAIN current.members
                       THEN current.members[k] ELSE EmptyMember
      kept == IF options.no_config \/ options.no_npm
                THEN {k \in DOMAIN current.members \ DOMAIN given.members :
                        MemberConfig(EmptyMemberConfig, current.members[k], options)
                          # EmptyMemberConfig}
                ELSE {}
  IN [root |-> MemberConfig(given.root, current.root, options),
      members |-> [k \in DOMAIN given.members \cup kept |->
                     MemberConfig(Given(k), Recorded(k), options)]]

\* WorkspaceConfigContent::update: the recorded workspace becomes the config.
WorkspaceConfigContent_update(config) ==
  [root |-> [dependencies |-> config.root.dependencies,
             package_json |-> config.root.package_json_deps],
   members |-> [k \in DOMAIN config.members |->
                  [dependencies |-> config.members[k].dependencies,
                   package_json |-> config.members[k].package_json_deps]]]

-----------------------------------------------------------------------------
(* LockfilePackageGraph *)

\* The nodes of the graph: requirements, npm ids and jsr ids.
ReqNode(r) == [kind |-> "req", id |-> r]
NpmNode(id) == [kind |-> "npm", id |-> id]
JsrNode(id) == [kind |-> "jsr", id |-> id]

\* LockfilePackageGraph::from_lockfile: the sections taken from the content
\* and the requirements of the workspace so far, the roots.
from_lockfile(npm, jsr, specifiers, old_config_file_packages) ==
  [npm |-> npm, jsr |-> jsr, specifiers |-> specifiers,
   roots |-> old_config_file_packages]

\* The nodes the graph holds.
GraphNodes(graph) ==
  {ReqNode(r) : r \in DOMAIN graph.specifiers \cup graph.roots}
    \cup {NpmNode(id) : id \in DOMAIN graph.npm}
    \cup {JsrNode(id) : id \in DOMAIN graph.jsr}

\* The package a resolved id names: `npm:<id>` or `jsr:<id>`.
ResolvedNode(resolved) ==
  LET npm == StripPrefix(resolved, NpmPrefix)
      jsr == StripPrefix(resolved, JsrPrefix)
  IN IF npm.some THEN {NpmNode(npm.s)}
     ELSE IF jsr.some THEN {JsrNode(jsr.s)}
     ELSE {}

\* GraphEdges that follows no edge of a node that has an edge to a node the
\* graph does not hold.
GraphEdges_NoneIfOneDangles(graph, node) ==
  LET edges ==
        IF node.kind = "req"
          THEN IF node.id \in DOMAIN graph.specifiers
                 THEN ResolvedNode(graph.specifiers[node.id]) ELSE {}
        ELSE IF node.kind = "npm"
          THEN {NpmNode(id) : id \in MapValues(graph.npm[node.id].dependencies)}
        ELSE {ReqNode(r) : r \in graph.jsr[node.id].dependencies}
  IN IF edges \subseteq GraphNodes(graph) THEN edges ELSE {}

\* The edges out of a node; an edge to a node the graph does not hold is
\* left out.
GraphEdges(graph, node) ==
  (IF node.kind = "req"
     THEN IF node.id \in DOMAIN graph.specifiers
            THEN ResolvedNode(graph.specifiers[node.id]) ELSE {}
   ELSE IF node.kind = "npm"
     THEN {NpmNode(id) : id \in MapValues(graph.npm[node.id].dependencies)}
   ELSE {ReqNode(r) : r \in graph.jsr[node.id].dependencies})
  \cap GraphNodes(graph)

\* Traverse that follows the edges of the nodes it starts from and no
\* further.
Traverse_OneLevel(graph, pending, visited) ==
  visited \cup UNION {GraphEdges(graph, node) : node \in pending}

\* The traversal: `pending` holds the marked nodes whose edges are still to be
\* followed, `visited` the nodes marked so far.
RECURSIVE Traverse(_, _, _)
Traverse(graph, pending, visited) ==
  IF pending = {} THEN visited
  ELSE LET node == CHOOSE n \in pending : TRUE
           fresh == GraphEdges(graph, node) \ visited
       IN Traverse(graph, (pending \ {node}) \cup fresh, visited \cup fresh)

\* The traversal again, giving the nodes in the order their edges are
\* followed.
RECURSIVE TraverseOrder(_, _, _, _)
TraverseOrder(graph, pending, visited, order) ==
  IF pending = {} THEN order
  ELSE LET node == CHOOSE n \in pending : TRUE
           fresh == GraphEdges(graph, node) \ visited
       IN TraverseOrder(graph, (pending \ {node}) \cup fresh, visited \cup fresh,
                        Append(order, node))

\* The ids of the nodes of one kind among `nodes`.
IdsOfKind(nodes, kind) == {n.id : n \in {v \in nodes : v.kind = kind}}

\* LockfilePackageGraph::remove_root_packages: what is reached from the roots
\* that are left stays, the rest goes.
remove_root_packages(graph, package_reqs) ==
  LET left == {ReqNode(r) : r \in graph.roots \ package_reqs}
      reached == Traverse(graph, left, left)
  IN [npm |-> MapRestrict(graph.npm, IdsOfKind(reached, "npm")),
      jsr |-> MapRestrict(graph.jsr, IdsOfKind(reached, "jsr")),
      specifiers |-> MapRestrict(graph.specifiers, IdsOfKind(reached, "req")),
      roots |-> graph.roots \ package_reqs]

\* LockfilePackageGraph::populate_packages: the sections of the content, from
\* what the graph still holds.
populate_packages(graph) ==
  [npm |-> graph.npm, jsr |-> graph.jsr, specifiers |-> graph.specifiers]

-----------------------------------------------------------------------------
(* The strings the calls and the source texts are drawn from *)

Url1 == << "h", ":", "/", "u" >>
Url2 == << "h", ":", "/", "v" >>
Hash1 == << "c", "1" >>
Hash2 == << "c", "2" >>
From1 == << "h", ":", "/", "f" >>
FromJsr == << "j", "s", "r", ":", "f" >>
To1 == << "h", ":", "/", "t", "1" >>
To2 == << "h", ":", "/", "t", "2" >>
Int1 == << "i", "1" >>
Int2 == << "i", "2" >>

ReqA == << "n", "p", "m", ":", "a", "@", "1" >>
ReqB == << "n", "p", "m", ":", "b", "@", "1" >>
ReqC == << "n", "p", "m", ":", "c", "@", "1" >>
ReqD == << "n", "p", "m", ":", "d", "@", "1" >>
ReqJ == << "j", "s", "r", ":", "j", "@", "1" >>

IdA == << "a", "@", "1", ".", "0" >>
IdB == << "b", "@", "1", ".", "0" >>
IdC == << "c", "@", "1", ".", "0" >>
IdS == << "s", "@", "1", ".", "0" >>
IdX == << "x", "@", "1", ".", "0" >>
IdJ == << "j", "@", "1", ".", "0" >>
IdZ == << "z", "@", "1", ".", "0" >>

NameA == << "a" >>
NameS == << "s" >>
NameX == << "x" >>
MemberM == << "m" >>
VFuture == << "2", "0", "0", "0" >>

\* A map from a sequence of << key, value >> pairs.
MapOf(pairs) ==
  [k \in {pairs[i][1] : i \in 1..Len(pairs)} |->
     pairs[CHOOSE i \in 1..Len(pairs) : pairs[i][1] = k][2]]

\* A content with packages: A and B both depend on S, A and X depend on each
\* other, and the jsr package J depends on the requirement C.
GraphContent ==
  [version |-> V4,
   specifiers |-> MapOf(<< << ReqA, NpmPrefix \o IdA >>, << ReqB, NpmPrefix \o IdB >>,
                           << ReqC, NpmPrefix \o IdC >>, << ReqJ, JsrPrefix \o IdJ >> >>),
   jsr |-> MapOf(<< << IdJ, [integrity |-> Int1, dependencies |-> {ReqC}] >> >>),
   npm |-> MapOf(<<
     << IdA, [integrity |-> Int1,
              dependencies |-> MapOf(<< << NameS, IdS >>, << NameX, IdX >> >>)] >>,
     << IdB, [integrity |-> Int1, dependencies |-> MapOf(<< << NameS, IdS >> >>)] >>,
     << IdC, [integrity |-> Int1, dependencies |-> EmptyMap] >>,
     << IdS, [integrity |-> Int1, dependencies |-> EmptyMap] >>,
     << IdX, [integrity |-> Int1, dependencies |-> MapOf(<< << NameA, IdA >> >>)] >> >>),
   redirects |-> EmptyMap,
   remote |-> MapOf(<< << Url1, Hash1 >> >>),
   workspace |-> [root |-> [dependencies |-> {ReqA, ReqB}, package_json |-> {}],
                  members |-> MapOf(<< << MemberM,
                    [dependencies |-> {ReqJ}, package_json |-> {}] >> >>)]]

\* A version 4 text holding GraphContent, without the line end at its end.
DocGraph4 ==
  LET text == print_v4_content(GraphContent) IN SubSeq(text, 1, Len(text) - 1)

\* A version 3 text with a redirect and an empty `remote`.
DocRedirects3 ==
  << LBrace, TStr(KVersion), TStr(V3),
     TStr(KRedirects), LBrace, TStr(From1), TStr(To1), RBrace,
     TStr(KRemote), LBrace, RBrace, RBrace >>

\* A version 4 text with a redirect from a `jsr:` key, and no `remote`.
DocJsrRedirect4 ==
  << LBrace, TStr(KVersion), TStr(V4),
     TStr(KRedirects), LBrace, TStr(FromJsr), TStr(To2), RBrace, RBrace >>

\* A version 3 text with packages.
DocPackages3 ==
  << LBrace, WS, TStr(KVersion), TStr(V3),
     TStr(KPackages), LBrace,
       TStr(KSpecifiers), LBrace, TStr(ReqA), TStr(NpmPrefix \o IdA), RBrace,
       TStr(KNpm), LBrace,
         TStr(IdA), LBrace, TStr(KIntegrity), TStr(Int1),
           TStr(KDependencies), LBrace, TStr(NameS), TStr(IdS), RBrace, RBrace,
         TStr(IdS), LBrace, TStr(KIntegrity), TStr(Int1),
           TStr(KDependencies), LBrace, RBrace, RBrace,
       RBrace,
     RBrace,
     TStr(KRemote), LBrace, TStr(Url1), TStr(Hash1), RBrace, RBrace >>

\* A version 2 text.
DocNpm2 ==
  << LBrace, TStr(KVersion), TStr(V2),
     TStr(KRemote), LBrace, TStr(Url1), TStr(Hash1), RBrace,
     TStr(KNpm), LBrace,
       TStr(KSpecifiers), LBrace, TStr(NameS), TStr(IdS), RBrace,
       TStr(KPackages), LBrace,
         TStr(IdS), LBrace, TStr(KIntegrity), TStr(Int1),
           TStr(KDependencies), LBrace, RBrace, RBrace,
       RBrace,
     RBrace, RBrace, NL >>

\* A text of the first format: URLs and their checksums, no version.
DocLegacy1 == << LBrace, TStr(Url1), TStr(Hash1), RBrace >>

\* A text with a version of the future.
DocFuture == << LBrace, TStr(KVersion), TStr(VFuture), RBrace >>

\* Texts that hold no lockfile.
DocBlank == << WS, NL >>
DocEmpty == << >>
DocBroken == << LBrace, TStr(KVersion) >>

SourceTexts ==
  {DocGraph4, DocRedirects3, DocPackages3, DocNpm2, DocLegacy1, DocFuture,
   DocBlank, DocEmpty, DocBroken}

\* The path of the lockfile.
DenoLock == << "d", ".", "l" >>

-----------------------------------------------------------------------------
(* Lockfile: construction *)

\* No error and no panic.
NoFailure == [reason |-> "none", detail |-> << >>, filename |-> << >>]

\* LockfileError: the reason, what the reason carries (the version of
\* UnsupportedVersion) and the file's name.
LockfileError(filename, reason, detail) ==
  [reason |-> reason, detail |-> detail, filename |-> filename]

\* A Lockfile value: the fields the constructors set.  `error` is NoFailure
\* or the error for which no Lockfile is produced.
LockfileOf(ow, c, text) ==
  [error |-> NoFailure, overwrite |-> ow, has_content_changed |-> FALSE,
   content |-> c, original_content |-> text]

NoLockfile(error) ==
  [error |-> error, overwrite |-> FALSE, has_content_changed |-> FALSE,
   content |-> LockfileContent_empty, original_content |-> << >>]

\* Lockfile::new_empty
new_empty(filename, ow) == LockfileOf(ow, LockfileContent_empty, << >>)

\* The version a text states: `version`, when it is a string.
VersionOf(json) ==
  IF Has(json, KVersion) /\ IsStr(json[KVersion])
    THEN [some |-> TRUE, s |-> json[KVersion].s]
    ELSE [some |-> FALSE, s |-> << >>]

\* Migrated that takes a text of version 3 as it is.
Migrated_Version3AsIs(json) ==
  LET version == VersionOf(json) IN
  IF version.some /\ version.s \in {V4, V3}
    THEN [err |-> "none", detail |-> << >>, json |-> json]
  ELSE IF version.some /\ version.s # V2
    THEN [err |-> "UnsupportedVersion", detail |-> version.s, json |-> EmptyMap]
  ELSE LET t == IF ~version.some
                  THEN transform3_to_4(transform2_to_3(transform1_to_2(json)))
                ELSE transform3_to_4(transform2_to_3(json))
       IN IF t.ok THEN [err |-> "none", detail |-> << >>, json |-> t.json]
          ELSE [err |-> "TransformError", detail |-> << >>, json |-> EmptyMap]

\* Migrated that takes a text of a version it does not know as it is.
Migrated_AnyVersion(json) ==
  LET version == VersionOf(json) IN
  IF version.some /\ version.s \notin {V3, V2}
    THEN [err |-> "none", detail |-> << >>, json |-> json]
  ELSE LET t == IF ~version.some
                  THEN transform3_to_4(transform2_to_3(transform1_to_2(json)))
                ELSE IF version.s = V2 THEN transform3_to_4(transform2_to_3(json))
                ELSE transform3_to_4(json)
       IN IF t.ok THEN [err |-> "none", detail |-> << >>, json |-> t.json]
          ELSE [err |-> "TransformError", detail |-> << >>, json |-> EmptyMap]

\* The text's object in the version 4 shape: the transforms its version asks
\* for, one after the other.  An unsupported version is carried in `detail`.
Migrated(json) ==
  LET version == VersionOf(json) IN
  IF version.some /\ version.s = V4
    THEN [err |-> "none", detail |-> << >>, json |-> json]
  ELSE IF version.some /\ version.s \notin {V3, V2}
    THEN [err |-> "UnsupportedVersion", detail |-> version.s, json |-> EmptyMap]
  ELSE LET t == IF ~version.some
                  THEN transform3_to_4(transform2_to_3(transform1_to_2(json)))
                ELSE IF version.s = V2 THEN transform3_to_4(transform2_to_3(json))
                ELSE transform3_to_4(json)
       IN IF t.ok THEN [err |-> "none", detail |-> << >>, json |-> t.json]
          ELSE [err |-> "TransformError", detail |-> << >>, json |-> EmptyMap]

\* fn load_content: [err, detail, content].
load_content(text) ==
  LET value == ParseJsonMap(text)
      migrated == Migrated(value.m)
      parsed == LockfileContent_from_json(JObj(migrated.json))
      Failed(err, detail) ==
        [err |-> err, detail |-> detail, content |-> LockfileContent_empty]
  IN IF ~IsObj(value) THEN Failed("ParseError", << >>)
     ELSE IF migrated.err # "none" THEN Failed(migrated.err, migrated.detail)
     ELSE parsed @@ [detail |-> << >>]

\* load_content(..).map_err(..)? and Ok(Lockfile { .. }): the error with the
\* file's name, or the Lockfile of the content loaded.
LoadedLockfile(filename, ow, file_content, loaded) ==
  IF loaded.err # "none"
    THEN NoLockfile(LockfileError(filename, loaded.err, loaded.detail))
    ELSE LockfileOf(ow, loaded.content, file_content)

\* IsBlank that takes only the text of no characters as blank.
IsBlank_NoCharacters(text) == text = << >>

\* file_content.trim().is_empty()
IsBlank(text) == \A i \in 1..Len(text) : text[i].p \in {"ws", "nl"}

\* with_lockfile_content that looks at the text before it looks at overwrite.
with_lockfile_content_TextFirst(filename, file_content, ow) ==
  IF IsBlank(file_content)
    THEN NoLockfile(LockfileError(filename, "Empty", << >>))
  ELSE IF ow THEN new_empty(filename, ow)
  ELSE LoadedLockfile(filename, ow, file_content, load_content(file_content))

\* Lockfile::with_lockfile_content
with_lockfile_content(filename, file_content, ow) ==
  IF ow THEN new_empty(filename, ow)
  ELSE IF IsBlank(file_content)
    THEN NoLockfile(LockfileError(filename, "Empty", << >>))
  ELSE LoadedLockfile(filename, ow, file_content, load_content(file_content))

NoReturn == [some |-> FALSE, text |-> << >>]
Returned(text) == [some |-> TRUE, text |-> text]

\* The state a program starts in: the Lockfile a constructor produced (or the
\* error it failed with) and, as history, the text the constructor was given.
Started(lockfile, fn, ow, text) ==
  /\ constructor = [fn |-> fn, overwrite |-> ow]
  /\ overwrite = lockfile.overwrite
  /\ has_content_changed = lockfile.has_content_changed
  /\ content = lockfile.content
  /\ original_content = lockfile.original_content
  /\ failure = lockfile.error
  /\ last = [op |-> "new", ret |-> NoReturn]
  /\ source = text
  /\ writes = 0
  /\ unwritten = {}
  /\ ops = 0

\* A program starts from new_empty or from with_lockfile_content with
\* overwrite unset.
Init ==
  \/ \E ow \in BOOLEAN :
       \E lockfile \in {new_empty(DenoLock, ow)} :
         Started(lockfile, "new_empty", ow, << >>)
  \/ \E text \in SourceTexts :
       \E lockfile \in {with_lockfile_content(DenoLock, text, FALSE)} :
         Started(lockfile, "with_lockfile_content", FALSE, text)

\* A program starts from either constructor, with overwrite set or unset.
InitLoad ==
  \/ \E ow \in BOOLEAN :
       \E lockfile \in {new_empty(DenoLock, ow)} :
         Started(lockfile, "new_empty", ow, << >>)
  \/ \E text \in SourceTexts, ow \in BOOLEAN :
       \E lockfile \in {with_lockfile_content(DenoLock, text, ow)} :
         Started(lockfile, "with_lockfile_content", ow, text)

-----------------------------------------------------------------------------
(* Lockfile: the calls *)

\* A call can be made: a Lockfile was produced, nothing has panicked, and
\* the behaviour has calls left.
Callable == failure = NoFailure /\ ops < MaxOps

\* What every call records: itself, what it returned, and (history) its kind
\* when it changed a stored value: "mutator" for the seven mutators,
\* "workspace" for set_workspace_config on a lockfile that held something and
\* "attach" for set_workspace_config on an empty one.
Called(op, ret, kind) ==
  /\ last' = [op |-> op, ret |-> ret]
  /\ unwritten' = IF content' # content THEN unwritten \cup {kind} ELSE unwritten
  /\ ops' = ops + 1
  /\ UNCHANGED << constructor, source, writes >>

\* to_json that always prints the content.
to_json_Printed ==
  IF content.version # V4 THEN [panic |-> TRUE, text |-> << >>]
  ELSE [panic |-> FALSE, text |-> LockfileContent_to_json(content)]

\* to_json that looks at has_content_changed alone.
to_json_FlagOnly ==
  IF ~has_content_changed
    THEN [panic |-> FALSE, text |-> original_content]
  ELSE IF content.version # V4 THEN [panic |-> TRUE, text |-> << >>]
  ELSE [panic |-> FALSE, text |-> LockfileContent_to_json(content)]

\* Lockfile::to_json: [panic |-> BOOLEAN, text |-> the text returned].
to_json ==
  IF ~has_content_changed /\ ~overwrite
    THEN [panic |-> FALSE, text |-> original_content]
  ELSE IF content.version # V4 THEN [panic |-> TRUE, text |-> << >>]
  ELSE [panic |-> FALSE, text |-> LockfileContent_to_json(content)]

\* removed_deps that takes every old requirement as removed.
removed_deps_AllOld(old_workspace_config, workspace) ==
  get_all_dep_reqs(old_workspace_config)

\* The requirements a change of the workspace removes.
removed_deps(old_workspace_config, workspace) ==
  get_all_dep_reqs(old_workspace_config) \ get_all_dep_reqs(workspace)

\* RemainingPackages that deletes what the removed requirements reach, shared
\* or not.
RemainingPackages_WithoutDescendants(c, old_deps, removed) ==
  LET graph == from_lockfile(c.npm, c.jsr, c.specifiers, old_deps)
      roots == {ReqNode(r) : r \in removed}
      gone == Traverse(graph, roots, roots)
  IN [npm |-> MapRestrict(c.npm, DOMAIN c.npm \ IdsOfKind(gone, "npm")),
      jsr |-> MapRestrict(c.jsr, DOMAIN c.jsr \ IdsOfKind(gone, "jsr")),
      specifiers |-> MapRestrict(c.specifiers,
                                 DOMAIN c.specifiers \ IdsOfKind(gone, "req"))]

\* RemainingPackages that leaves the specifiers as they were.
RemainingPackages_StaleSpecifiers(c, old_deps, removed) ==
  LET packages ==
        populate_packages(
          remove_root_packages(from_lockfile(c.npm, c.jsr, c.specifiers, old_deps),
                               removed))
  IN [npm |-> packages.npm, jsr |-> packages.jsr, specifiers |-> c.specifiers]

\* The packages left once `removed` is removed: the graph is built from the
\* content's packages with the old requirements as its roots.
RemainingPackages(c, old_deps, removed) ==
  populate_packages(
    remove_root_packages(from_lockfile(c.npm, c.jsr, c.specifiers, old_deps),
                         removed))

\* MarksChanged that holds for an empty lockfile too.
MarksChanged_Always(was_empty_before) == TRUE

\* MarksChanged that never holds.
MarksChanged_Never(was_empty_before) == FALSE

\* Whether a change of the workspace sets has_content_changed.
MarksChanged(was_empty_before) == ~was_empty_before

\* SameWorkspace that never holds.
SameWorkspace_Never(old_workspace_config, workspace) == FALSE

\* The call has changed nothing of the workspace, and returns.
SameWorkspace(old_workspace_config, workspace) == old_workspace_config = workspace

\* set_workspace_config that takes `remote` with the packages and does not
\* put it back.
set_workspace_config_TakesRemote(options) ==
  LET was_empty_before == LockfileContent_is_empty(content)
      old_workspace_config == content.workspace
      config == WorkspaceConfig_new(options, content.workspace)
      workspace == WorkspaceConfigContent_update(config)
      removed == removed_deps(old_workspace_config, workspace)
      packages == RemainingPackages(content, get_all_dep_reqs(old_workspace_config),
                                    removed)
  IN /\ Callable
     /\ IF SameWorkspace(old_workspace_config, workspace)
          THEN UNCHANGED << content, has_content_changed >>
          ELSE /\ has_content_changed' =
                    IF MarksChanged(was_empty_before) THEN TRUE ELSE has_content_changed
               /\ content' =
                    IF removed = {} THEN [content EXCEPT !.workspace = workspace]
                    ELSE [content EXCEPT !.workspace = workspace,
                                         !.npm = packages.npm,
                                         !.jsr = packages.jsr,
                                         !.specifiers = packages.specifiers,
                                         !.remote = EmptyMap]
     /\ UNCHANGED << overwrite, original_content, failure >>
     /\ Called("set_workspace_config", NoReturn,
               IF was_empty_before THEN "attach" ELSE "workspace")

\* Lockfile::set_workspace_config
set_workspace_config(options) ==
  LET was_empty_before == LockfileContent_is_empty(content)
      old_workspace_config == content.workspace
      config == WorkspaceConfig_new(options, content.workspace)
      workspace == WorkspaceConfigContent_update(config)
      removed == removed_deps(old_workspace_config, workspace)
      packages == RemainingPackages(content, get_all_dep_reqs(old_workspace_config),
                                    removed)
  IN /\ Callable
     /\ IF SameWorkspace(old_workspace_config, workspace)
          THEN UNCHANGED << content, has_content_changed >>
          ELSE /\ has_content_changed' =
                    IF MarksChanged(was_empty_before) THEN TRUE ELSE has_content_changed
               /\ content' =
                    IF removed = {} THEN [content EXCEPT !.workspace = workspace]
                    ELSE [content EXCEPT !.workspace = workspace,
                                         !.npm = packages.npm,
                                         !.jsr = packages.jsr,
                                         !.specifiers = packages.specifiers]
     /\ UNCHANGED << overwrite, original_content, failure >>
     /\ Called("set_workspace_config", NoReturn,
               IF was_empty_before THEN "attach" ELSE "workspace")

\* ShouldSkipWrite that looks at has_content_changed alone.
ShouldSkipWrite_FlagOnly == ~has_content_changed

\* resolve_write_bytes has nothing to return.
ShouldSkipWrite == ~has_content_changed /\ ~overwrite

\* AdoptWritten that clears the flag and keeps the old original_content.
AdoptWritten_FlagOnly(json_string) ==
  /\ has_content_changed' = FALSE
  /\ UNCHANGED original_content

\* What resolve_write_bytes stores before it returns bytes.
AdoptWritten(json_string) ==
  /\ has_content_changed' = FALSE
  /\ original_content' = json_string

\* Lockfile::resolve_write_bytes
resolve_write_bytes ==
  /\ Callable
  /\ UNCHANGED << overwrite, content >>
  /\ IF ShouldSkipWrite
       THEN /\ UNCHANGED << has_content_changed, original_content, failure,
                             unwritten, writes >>
            /\ last' = [op |-> "resolve_write_bytes", ret |-> NoReturn]
       ELSE LET json_string == to_json IN
            IF json_string.panic
              THEN /\ failure' = [NoFailure EXCEPT
                                     !.reason = "panic: only v4 lockfiles can be printed"]
                   /\ UNCHANGED << has_content_changed, original_content,
                                    unwritten, writes >>
                   /\ last' = [op |-> "resolve_write_bytes", ret |-> NoReturn]
              ELSE /\ AdoptWritten(json_string.text)
                   /\ unwritten' = {}
                   /\ writes' = writes + 1
                   /\ last' = [op |-> "resolve_write_bytes",
                               ret |-> Returned(json_string.text)]
                   /\ UNCHANGED failure
  /\ ops' = ops + 1
  /\ UNCHANGED << constructor, source >>

\* EntryInsert that reports a change whatever was stored.
EntryInsert_AlwaysChanged(map, key, value) ==
  [map |-> MapInsert(map, key, value), changed |-> TRUE]

\* EntryInsert that leaves a key it finds alone.
EntryInsert_KeepExisting(map, key, value) ==
  IF key \notin DOMAIN map
    THEN [map |-> MapInsert(map, key, value), changed |-> TRUE]
  ELSE [map |-> map, changed |-> FALSE]

\* What the match on a BTreeMap entry does in the insert_* calls: the map
\* after the call and whether has_content_changed is set.
EntryInsert(map, key, value) ==
  IF key \notin DOMAIN map
    THEN [map |-> MapInsert(map, key, value), changed |-> TRUE]
  ELSE IF map[key] # value
    THEN [map |-> MapInsert(map, key, value), changed |-> TRUE]
  ELSE [map |-> map, changed |-> FALSE]

\* insert_remote that assigns has_content_changed from this call alone.
insert_remote_FlagOfThisCall(specifier, hash) ==
  LET entry == EntryInsert(content.remote, specifier, hash) IN
  /\ Callable
  /\ content' = [content EXCEPT !.remote = entry.map]
  /\ has_content_changed' = entry.changed
  /\ UNCHANGED << overwrite, original_content, failure >>
  /\ Called("insert_remote", NoReturn, "mutator")

\* Lockfile::insert_remote
insert_remote(specifier, hash) ==
  LET entry == EntryInsert(content.remote, specifier, hash) IN
  /\ Callable
  /\ content' = [content EXCEPT !.remote = entry.map]
  /\ has_content_changed' = (entry.changed \/ has_content_changed)
  /\ UNCHANGED << overwrite, original_content, failure >>
  /\ Called("insert_remote", NoReturn, "mutator")

\* Lockfile::insert_npm_package
insert_npm_package(package_info) ==
  LET dependencies == MapOf([i \in 1..Len(package_info.dependencies) |->
                               << package_info.dependencies[i].name,
                                  package_info.dependencies[i].id >>])
      entry == EntryInsert(content.npm, package_info.serialized_id,
                           [integrity |-> package_info.integrity,
                            dependencies |-> dependencies])
  IN /\ Callable
     /\ content' = [content EXCEPT !.npm = entry.map]
     /\ has_content_changed' = (entry.changed \/ has_content_changed)
     /\ UNCHANGED << overwrite, original_content, failure >>
     /\ Called("insert_npm_package", NoReturn, "mutator")

\* Lockfile::insert_package_specifier
insert_package_specifier(serialized_package_req, serialized_package_id) ==
  LET entry == EntryInsert(content.specifiers, serialized_package_req,
                           serialized_package_id)
  IN /\ Callable
     /\ content' = [content EXCEPT !.specifiers = entry.map]
     /\ has_content_changed' = (entry.changed \/ has_content_changed)
     /\ UNCHANGED << overwrite, original_content, failure >>
     /\ Called("insert_package_specifier", NoReturn, "mutator")

\* insert_package that replaces a package whose integrity differs by one
\* without dependencies.
insert_package_ReplacesPackage(name, integrity) ==
  /\ Callable
  /\ IF name \notin DOMAIN content.jsr \/ content.jsr[name].integrity # integrity
       THEN /\ content' = [content EXCEPT !.jsr =
                 MapInsert(@, name, [integrity |-> integrity, dependencies |-> {}])]
            /\ has_content_changed' = TRUE
     ELSE UNCHANGED << content, has_content_changed >>
  /\ UNCHANGED << overwrite, original_content, failure >>
  /\ Called("insert_package", NoReturn, "mutator")

\* Lockfile::insert_package
insert_package(name, integrity) ==
  /\ Callable
  /\ IF name \notin DOMAIN content.jsr
       THEN /\ content' = [content EXCEPT !.jsr =
                 MapInsert(@, name, [integrity |-> integrity, dependencies |-> {}])]
            /\ has_content_changed' = TRUE
     ELSE IF content.jsr[name].integrity # integrity
       THEN /\ content' = [content EXCEPT !.jsr[name].integrity = integrity]
            /\ has_content_changed' = TRUE
     ELSE UNCHANGED << content, has_content_changed >>
  /\ UNCHANGED << overwrite, original_content, failure >>
  /\ Called("insert_package", NoReturn, "mutator")

\* add_package_deps that sets has_content_changed for every package it finds.
add_package_deps_AlwaysDirty(name, deps) ==
  /\ Callable
  /\ IF name \in DOMAIN content.jsr
       THEN /\ content' = [content EXCEPT !.jsr[name].dependencies =
                                             @ \cup StrSet(deps)]
            /\ has_content_changed' = TRUE
       ELSE UNCHANGED << content, has_content_changed >>
  /\ UNCHANGED << overwrite, original_content, failure >>
  /\ Called("add_package_deps", NoReturn, "mutator")

\* Lockfile::add_package_deps
add_package_deps(name, deps) ==
  /\ Callable
  /\ IF name \in DOMAIN content.jsr
       THEN LET start_count == Cardinality(content.jsr[name].dependencies)
                extended == content.jsr[name].dependencies \cup StrSet(deps)
                end_count == Cardinality(extended)
            IN /\ content' = [content EXCEPT !.jsr[name].dependencies = extended]
               /\ has_content_changed' =
                    IF start_count # end_count THEN TRUE ELSE has_content_changed
       ELSE UNCHANGED << content, has_content_changed >>
  /\ UNCHANGED << overwrite, original_content, failure >>
  /\ Called("add_package_deps", NoReturn, "mutator")

\* insert_redirect that takes a `jsr:` key like any other.
insert_redirect_AnyKey(from, to) ==
  LET entry == EntryInsert(content.redirects, from, to) IN
  /\ Callable
  /\ content' = [content EXCEPT !.redirects = entry.map]
  /\ has_content_changed' = (entry.changed \/ has_content_changed)
  /\ UNCHANGED << overwrite, original_content, failure >>
  /\ Called("insert_redirect", NoReturn, "mutator")

\* Lockfile::insert_redirect
insert_redirect(from, to) ==
  LET entry == EntryInsert(content.redirects, from, to) IN
  /\ Callable
  /\ IF StartsWith(from, JsrPrefix)
       THEN UNCHANGED << content, has_content_changed >>
       ELSE /\ content' = [content EXCEPT !.redirects = entry.map]
            /\ has_content_changed' = (entry.changed \/ has_content_changed)
  /\ UNCHANGED << overwrite, original_content, failure >>
  /\ Called("insert_redirect", NoReturn, "mutator")

\* remove_redirect that sets has_content_changed whether it removed or not.
remove_redirect_AlwaysDirty(from) ==
  LET removed_value == IF from \in DOMAIN content.redirects
                         THEN Returned(<< TStr(content.redirects[from]) >>)
                         ELSE NoReturn
  IN /\ Callable
     /\ content' = [content EXCEPT !.redirects = MapRemove(@, from)]
     /\ has_content_changed' = TRUE
     /\ UNCHANGED << overwrite, original_content, failure >>
     /\ Called("remove_redirect", removed_value, "mutator")

\* Lockfile::remove_redirect
remove_redirect(from) ==
  LET removed_value == IF from \in DOMAIN content.redirects
                         THEN Returned(<< TStr(content.redirects[from]) >>)
                         ELSE NoReturn
  IN /\ Callable
     /\ content' = [content EXCEPT !.redirects = MapRemove(@, from)]
     /\ has_content_changed' = (removed_value.some \/ has_content_changed)
     /\ UNCHANGED << overwrite, original_content, failure >>
     /\ Called("remove_redirect", removed_value, "mutator")

-----------------------------------------------------------------------------
(* The calls a behaviour draws from *)

RemoteCalls == {<< Url1, Hash1 >>, << Url1, Hash2 >>}

NpmCalls ==
  {[serialized_id |-> IdS, integrity |-> Int1, dependencies |-> << >>],
   [serialized_id |-> IdS, integrity |-> Int2,
    dependencies |-> << [name |-> NameA, id |-> IdA] >>]}

SpecifierCalls == {<< ReqA, NpmPrefix \o IdA >>, << ReqA, NpmPrefix \o IdS >>}

PackageCalls == {<< IdJ, Int1 >>, << IdJ, Int2 >>}

DepsCalls == {<< IdJ, << ReqC >> >>, << IdJ, << ReqD >> >>, << IdZ, << ReqC >> >>}

RedirectCalls ==
  {<< From1, To1 >>, << From1, To2 >>, << FromJsr, To1 >>, << FromJsr, To2 >>}

RemoveCalls == {From1, FromJsr}

\* A workspace config: the root's dependencies and package.json dependencies,
\* and those of the member M (absent: no member).
Config(root_deps, root_package_json, has_member, member_deps) ==
  [root |-> [dependencies |-> root_deps, package_json_deps |-> root_package_json],
   members |-> IF has_member
                 THEN MapOf(<< << MemberM, [dependencies |-> member_deps,
                                            package_json_deps |-> {}] >> >>)
                 ELSE EmptyMap]

Options(no_config, no_npm, config) ==
  [no_config |-> no_config, no_npm |-> no_npm, config |-> config]

WorkspaceCalls ==
  {Options(FALSE, FALSE, Config({ReqA, ReqB}, {}, TRUE, {ReqJ})),
   Options(FALSE, FALSE, Config({ReqB}, {}, TRUE, {ReqJ})),
   Options(FALSE, FALSE, Config({}, {}, TRUE, {ReqJ})),
   Options(FALSE, FALSE, Config({ReqA, ReqB}, {}, FALSE, {})),
   Options(FALSE, FALSE, Config({ReqB}, {}, TRUE, {ReqA, ReqJ})),
   Options(FALSE, FALSE, Config({ReqB}, {ReqA}, TRUE, {ReqJ})),
   Options(FALSE, FALSE, Config({}, {}, FALSE, {})),
   Options(TRUE, FALSE, Config({}, {}, FALSE, {})),
   Options(FALSE, TRUE, Config({ReqB}, {}, FALSE, {}))}

Next ==
  \/ \E call \in RemoteCalls : insert_remote(call[1], call[2])
  \/ \E call \in NpmCalls : insert_npm_package(call)
  \/ \E call \in SpecifierCalls : insert_package_specifier(call[1], call[2])
  \/ \E call \in PackageCalls : insert_package(call[1], call[2])
  \/ \E call \in DepsCalls : add_package_deps(call[1], call[2])
  \/ \E call \in RedirectCalls : insert_redirect(call[1], call[2])
  \/ \E from \in RemoveCalls : remove_redirect(from)
  \/ \E options \in WorkspaceCalls : set_workspace_config(options)
  \/ resolve_write_bytes

Spec == Init /\ [][Next]_vars

\* The calls that follow a constructor where the constructors are looked at:
\* changes of remote and redirects, and resolve_write_bytes.
NextLoad ==
  \/ \E call \in RemoteCalls : insert_remote(call[1], call[2])
  \/ \E call \in RedirectCalls : insert_redirect(call[1], call[2])
  \/ \E from \in RemoveCalls : remove_redirect(from)
  \/ resolve_write_bytes

SpecLoad == InitLoad /\ [][NextLoad]_vars

\* A program that fills the maps of the content: it starts from new_empty or
\* from a text with packages or with redirects.
InitCodec ==
  \/ \E ow \in BOOLEAN :
       \E lockfile \in {new_empty(DenoLock, ow)} :
         Started(lockfile, "new_empty", ow, << >>)
  \/ \E text \in {DocGraph4, DocRedirects3, DocJsrRedirect4} :
       \E lockfile \in {with_lockfile_content(DenoLock, text, FALSE)} :
         Started(lockfile, "with_lockfile_content", FALSE, text)

\* add_package_deps calls, one of them with two requirements.
DepsCallsCodec == DepsCalls \cup {<< IdJ, << ReqC, ReqD >> >>}

\* The seven mutators, with two URLs for `remote`, and resolve_write_bytes.
NextCodec ==
  \/ \E call \in RemoteCalls \cup {<< Url2, Hash1 >>} :
       insert_remote(call[1], call[2])
  \/ \E call \in NpmCalls : insert_npm_package(call)
  \/ \E call \in SpecifierCalls : insert_package_specifier(call[1], call[2])
  \/ \E call \in PackageCalls : insert_package(call[1], call[2])
  \/ \E call \in DepsCallsCodec : add_package_deps(call[1], call[2])
  \/ \E call \in RedirectCalls : insert_redirect(call[1], call[2])
  \/ \E from \in RemoveCalls : remove_redirect(from)
  \/ resolve_write_bytes

SpecCodec == InitCodec /\ [][NextCodec]_vars

\* set_workspace_config with no_config set and an empty config.
NoConfigCall == Options(TRUE, FALSE, Config({}, {}, FALSE, {}))

\* A config whose member has a dependency of its own and one of its
\* package.json.
MemberPackageJsonCall ==
  Options(FALSE, FALSE,
          [root |-> [dependencies |-> {ReqA, ReqB}, package_json_deps |-> {}],
           members |-> MapOf(<< << MemberM, [dependencies |-> {ReqJ},
                                             package_json_deps |-> {ReqC}] >> >>)])

\* An npm package that depends on itself.
SelfDependentCall ==
  [serialized_id |-> IdS, integrity |-> Int1,
   dependencies |-> << [name |-> NameS, id |-> IdS] >>]

\* A specifier that is resolved to a package that is not stored.
MissingPackageCall == << ReqD, NpmPrefix \o IdZ >>

\* The calls of set_workspace_config on a lockfile with packages.
PruneCalls == WorkspaceCalls \cup {MemberPackageJsonCall}

\* A program that sets the workspace of a lockfile with packages.
InitPrune ==
  \E lockfile \in {with_lockfile_content(DenoLock, DocGraph4, FALSE)} :
    Started(lockfile, "with_lockfile_content", FALSE, DocGraph4)

\* set_workspace_config, the calls that give it packages that depend on
\* themselves and requirements that lead nowhere, and resolve_write_bytes.
NextPrune ==
  \/ \E options \in PruneCalls : set_workspace_config(options)
  \/ \E call \in {SelfDependentCall} : insert_npm_package(call)
  \/ \E call \in {MissingPackageCall} :
       insert_package_specifier(call[1], call[2])
  \/ \E call \in DepsCalls : add_package_deps(call[1], call[2])
  \/ resolve_write_bytes

SpecPrune == InitPrune /\ [][NextPrune]_vars

-----------------------------------------------------------------------------
(* LockfileContent::from_json called by itself *)

\* Specifiers of one name: two with a requirement, one without, and a key of
\* fewer characters than `npm:@`.
ReqA2 == << "n", "p", "m", ":", "a", "@", "2" >>
BareA == << "n", "p", "m", ":", "a" >>
ShortKey == << "n", "p", "m", ":" >>

SpecifierKeys == {ReqA, ReqA2, BareA, ShortKey}

\* The `version` of a JSON given to from_json: none, "4", "3", and one that
\* is no string.
VersionParts ==
  {<< >>, << TStr(KVersion), TStr(V4) >>, << TStr(KVersion), TStr(V3) >>,
   << TStr(KVersion), LBracket, RBracket >>}

\* The `specifiers` of a JSON given to from_json, with `keys` as its keys.
SpecifiersPart(keys) ==
  IF keys = {} THEN << >>
  ELSE LET sorted == SortedSeq(keys) IN
       << TStr(KSpecifiers), LBrace >>
         \o Flatten([i \in 1..Len(sorted) |->
                       << TStr(sorted[i]), TStr(NpmPrefix \o IdA) >>])
         \o << RBrace >>

\* The dependencies the one raw jsr package is given.
RawJsrDeps ==
  {<< >>, << ReqA >>, << ReqA2 >>, << BareA >>, << ReqB >>, << BareA, ReqA2 >>}

\* The `jsr` of a JSON given to from_json: none, one without packages, and
\* one with the package J.
JsrParts ==
  {<< >>, << TStr(KJsr), LBrace, RBrace >>}
    \cup {<< TStr(KJsr), LBrace, TStr(IdJ), LBrace, TStr(KIntegrity), TStr(Int1),
              TStr(KDependencies) >> \o PrintStrArr(deps) \o << RBrace, RBrace >> :
            deps \in RawJsrDeps}

\* The JSON values given to from_json, as texts: objects, a string and an
\* array.
FromJsonTexts ==
  {<< LBrace >> \o version \o SpecifiersPart(keys) \o jsr \o << RBrace >> :
     version \in VersionParts, keys \in SUBSET SpecifierKeys, jsr \in JsrParts}
    \cup {<< TStr(V4) >>, << LBracket, RBracket >>}

\* serde_json::Value of a text: any value, not only an object.
ParseJsonValue(text) ==
  LET toks == SelectSeq(text, NotLayout)
      r == ParseValue(toks, 1)
  IN IF r.next = Len(toks) + 1 THEN r.v ELSE JBad

\* A program that holds a JSON value and has not called from_json yet.
InitFromJson ==
  \E text \in FromJsonTexts :
    Started(new_empty(DenoLock, FALSE), "from_json", FALSE, text)

\* LockfileContent::from_json(json): the content read, or the error
\* (a DeserializationError, or the panic of todo!()).
from_json ==
  /\ last.op = "new"
  /\ \E parsed \in {LockfileContent_from_json(ParseJsonValue(source))} :
       /\ content' = parsed.content
       /\ failure' = [NoFailure EXCEPT !.reason = parsed.err]
  /\ last' = [op |-> "from_json", ret |-> NoReturn]
  /\ ops' = ops + 1
  /\ UNCHANGED << overwrite, has_content_changed, original_content, constructor,
                  source, writes, unwritten >>

NextFromJson == from_json

SpecFromJson == InitFromJson /\ [][NextFromJson]_vars

TypeOK ==
  /\ overwrite \in BOOLEAN
  /\ has_content_changed \in BOOLEAN
  /\ ops \in 0..MaxOps
  /\ constructor.fn \in {"new_empty", "with_lockfile_content"}
  /\ writes \in 0..MaxOps
  /\ unwritten \subseteq {"mutator", "workspace", "attach"}

-----------------------------------------------------------------------------
(* Properties: change tracking and serialization *)

\* The step is a call of `op`.
Step(op) == last'.op = op /\ ops' = ops + 1

Mutators ==
  {"insert_remote", "insert_npm_package", "insert_package_specifier",
   "insert_package", "add_package_deps", "insert_redirect", "remove_redirect"}

\* `key` is stored in `map` with `value`.
Stored(map, key, value) == key \in DOMAIN map /\ map[key] = value

\* The value insert_npm_package stores for `package_info`.
NpmValue(package_info) ==
  [integrity |-> package_info.integrity,
   dependencies |-> MapOf([i \in 1..Len(package_info.dependencies) |->
                             << package_info.dependencies[i].name,
                                package_info.dependencies[i].id >>])]

C2_NoneExactlyWhenClean ==
  [][Step("resolve_write_bytes") =>
       /\ (~last'.ret.some) <=> (~has_content_changed /\ ~overwrite)
       /\ ~last'.ret.some =>
            UNCHANGED << overwrite, has_content_changed, content, original_content >>
       /\ failure' = NoFailure]_vars

\* C2: None was returned on a loaded Lockfile, and bytes had been returned
\* before.
C2_Witness ==
  /\ last.op = "resolve_write_bytes" /\ ~last.ret.some
  /\ ~overwrite /\ writes = 1 /\ source # << >>

\* C3, as stated: with overwrite unset, once bytes have been returned,
\* resolve_write_bytes returns bytes exactly when one of the seven mutators has
\* changed a stored value since the bytes returned last.
C3_Original ==
  [][(Step("resolve_write_bytes") /\ ~overwrite /\ writes > 0) =>
       (last'.ret.some <=> "mutator" \in unwritten)]_vars

\* C3, amended: with overwrite unset, once bytes have been returned,
\* resolve_write_bytes returns bytes exactly when, since the bytes returned
\* last, one of the seven mutators has changed a stored value or
\* set_workspace_config has changed the workspace of a lockfile that was not
\* empty; a workspace attached to an empty lockfile is not written.
C3_WrittenAtMostOnce ==
  [][(Step("resolve_write_bytes") /\ ~overwrite /\ writes > 0) =>
       (last'.ret.some <=> unwritten \cap {"mutator", "workspace"} # {})]_vars

\* C3: bytes were returned, a call changed a stored value, and bytes were
\* returned a second time.
C3_Witness ==
  /\ ~overwrite /\ writes = 2 /\ ops = 4
  /\ last.op = "resolve_write_bytes" /\ last.ret.some

\* C4: a call of one of the seven mutators with what is stored already (for
\* remove_redirect: a key that is not stored, for add_package_deps:
\* requirements the package has) leaves the content and has_content_changed
\* as they were, and resolve_write_bytes, called with overwrite unset after a
\* mutator with no stored value changed since the last bytes, returns None.
C4_NoOpCalls ==
  [][/\ \A call \in RemoteCalls :
          (Step("insert_remote") /\ insert_remote(call[1], call[2])
             /\ Stored(content.remote, call[1], call[2]))
            => UNCHANGED << content, has_content_changed >>
     /\ \A call \in NpmCalls :
          (Step("insert_npm_package") /\ insert_npm_package(call)
             /\ Stored(content.npm, call.serialized_id, NpmValue(call)))
            => UNCHANGED << content, has_content_changed >>
     /\ \A call \in SpecifierCalls :
          (Step("insert_package_specifier")
             /\ insert_package_specifier(call[1], call[2])
             /\ Stored(content.specifiers, call[1], call[2]))
            => UNCHANGED << content, has_content_changed >>
     /\ \A call \in PackageCalls :
          (Step("insert_package") /\ insert_package(call[1], call[2])
             /\ call[1] \in DOMAIN content.jsr
             /\ content.jsr[call[1]].integrity = call[2])
            => UNCHANGED << content, has_content_changed >>
     /\ \A call \in DepsCalls :
          (Step("add_package_deps") /\ add_package_deps(call[1], call[2])
             /\ call[1] \in DOMAIN content.jsr
             /\ StrSet(call[2]) \subseteq content.jsr[call[1]].dependencies)
            => UNCHANGED << content, has_content_changed >>
     /\ \A call \in RedirectCalls :
          (Step("insert_redirect") /\ insert_redirect(call[1], call[2])
             /\ Stored(content.redirects, call[1], call[2]))
            => UNCHANGED << content, has_content_changed >>
     /\ \A from \in RemoveCalls :
          (Step("remove_redirect") /\ remove_redirect(from)
             /\ from \notin DOMAIN content.redirects)
            => UNCHANGED << content, has_content_changed >>
     /\ (Step("resolve_write_bytes") /\ ~overwrite
           /\ last.op \in Mutators /\ unwritten = {})
          => ~last'.ret.some]_vars

\* C4: insert_npm_package was called with the package the loaded lockfile
\* holds, and nothing changed.
C4_Witness ==
  /\ last.op = "insert_npm_package" /\ ops = 1
  /\ ~overwrite /\ ~has_content_changed /\ unwritten = {}
  /\ Stored(content.npm, IdS, [integrity |-> Int1, dependencies |-> EmptyMap])

\* The key is stored with the value after the call; has_content_changed is
\* set when the key was not stored or was stored with another value, and stays
\* false when it was false and the key was stored with the value.
Upserted(before, after, key, value) ==
  /\ Stored(after, key, value)
  /\ ~Stored(before, key, value) => has_content_changed'
  /\ (Stored(before, key, value) /\ ~has_content_changed) => ~has_content_changed'

\* C5: insert_remote, insert_npm_package, insert_package_specifier,
\* insert_package and insert_redirect (key without the jsr: prefix) set
\* has_content_changed when the key is new or its value differs, and leave
\* the key stored with the new value; with the flag false and the value stored
\* already, the flag stays false.
C5_DirtyTransition ==
  [][/\ \A call \in RemoteCalls :
          (Step("insert_remote") /\ insert_remote(call[1], call[2]))
            => Upserted(content.remote, content'.remote, call[1], call[2])
     /\ \A call \in NpmCalls :
          (Step("insert_npm_package") /\ insert_npm_package(call))
            => Upserted(content.npm, content'.npm, call.serialized_id,
                        NpmValue(call))
     /\ \A call \in SpecifierCalls :
          (Step("insert_package_specifier")
             /\ insert_package_specifier(call[1], call[2]))
            => Upserted(content.specifiers, content'.specifiers, call[1], call[2])
     /\ \A call \in PackageCalls :
          (Step("insert_package") /\ insert_package(call[1], call[2]))
            => Upserted([k \in DOMAIN content.jsr |-> content.jsr[k].integrity],
                        [k \in DOMAIN content'.jsr |-> content'.jsr[k].integrity],
                        call[1], call[2])
     /\ \A call \in RedirectCalls :
          (Step("insert_redirect") /\ insert_redirect(call[1], call[2])
             /\ ~StartsWith(call[1], JsrPrefix))
            => Upserted(content.redirects, content'.redirects, call[1], call[2])]_vars

\* C5: a checksum no source text holds was stored, bytes were returned, and
\* the call that stored it again left the flag false.
C5_Witness ==
  /\ last.op = "insert_remote" /\ writes = 1 /\ ~overwrite
  /\ ~has_content_changed /\ unwritten = {}
  /\ Stored(content.remote, Url1, Hash2)

\* C6: right after resolve_write_bytes returned bytes, has_content_changed is
\* false, original_content is the text returned, and to_json returns that
\* text.
C6_WrittenTextAdopted ==
  (last.op = "resolve_write_bytes" /\ last.ret.some) =>
    /\ ~has_content_changed
    /\ original_content = last.ret.text
    /\ to_json = [panic |-> FALSE, text |-> last.ret.text]

\* C6: bytes were returned for a loaded Lockfile, and to_json gives them and
\* not the text loaded.
C6_Witness ==
  /\ last.op = "resolve_write_bytes" /\ last.ret.some
  /\ ~overwrite /\ source = DocLegacy1
  /\ to_json.text = last.ret.text /\ to_json.text # source

\* C7: with overwrite set, every call of resolve_write_bytes returns bytes,
\* the printed content.
C7_OverwriteAlwaysWrites ==
  (overwrite /\ last.op = "resolve_write_bytes") =>
    /\ last.ret.some
    /\ last.ret.text = LockfileContent_to_json(content)

\* C7: with overwrite set, two calls of resolve_write_bytes in a row on a
\* new Lockfile both returned bytes.
C7_Witness ==
  /\ overwrite /\ ops = 2 /\ writes = 2 /\ unwritten = {}
  /\ last.op = "resolve_write_bytes" /\ last.ret.some

-----------------------------------------------------------------------------
(* Properties: pruning *)

\* The requirements of a workspace, as nodes.
ReqNodes(reqs) == {[kind |-> "req", id |-> r] : r \in reqs}

\* The entries of a content a node refers to: a requirement, the id its
\* specifier resolves to; an npm id, its dependency ids; a jsr id, its
\* dependency requirements.
RefersTo(c, node) ==
  IF node.kind = "req"
    THEN IF node.id \notin DOMAIN c.specifiers THEN {}
         ELSE LET resolved == c.specifiers[node.id] IN
              {[kind |-> "npm", id |-> id] :
                 id \in {i \in DOMAIN c.npm : resolved = NpmPrefix \o i}}
                \cup {[kind |-> "jsr", id |-> id] :
                        id \in {i \in DOMAIN c.jsr : resolved = JsrPrefix \o i}}
  ELSE IF node.kind = "npm"
    THEN IF node.id \notin DOMAIN c.npm THEN {}
         ELSE {[kind |-> "npm", id |-> c.npm[node.id].dependencies[name]] :
                 name \in DOMAIN c.npm[node.id].dependencies}
  ELSE IF node.id \notin DOMAIN c.jsr THEN {}
       ELSE ReqNodes(c.jsr[node.id].dependencies)

\* What is transitively reachable from `nodes` in a content.
RECURSIVE Reachable(_, _)
Reachable(c, nodes) ==
  LET further == nodes \cup UNION {RefersTo(c, n) : n \in nodes}
  IN IF further = nodes THEN nodes ELSE Reachable(c, further)

\* The keys of one section among `nodes`.
Keys(nodes, kind) == {n.id : n \in {v \in nodes : v.kind = kind}}

\* The requirements of the workspace before and after the step.
OldReqs == get_all_dep_reqs(content.workspace)
NewReqs == get_all_dep_reqs(content'.workspace)

\* Every entry of `nodes` is in the content after the step, as it was before.
Kept(nodes) ==
  /\ \A r \in Keys(nodes, "req") \cap DOMAIN content.specifiers :
       Stored(content'.specifiers, r, content.specifiers[r])
  /\ \A id \in Keys(nodes, "npm") \cap DOMAIN content.npm :
       Stored(content'.npm, id, content.npm[id])
  /\ \A id \in Keys(nodes, "jsr") \cap DOMAIN content.jsr :
       Stored(content'.jsr, id, content.jsr[id])

\* No entry of `nodes` is in the content after the step.
Gone(nodes) ==
  /\ Keys(nodes, "req") \cap DOMAIN content'.specifiers = {}
  /\ Keys(nodes, "npm") \cap DOMAIN content'.npm = {}
  /\ Keys(nodes, "jsr") \cap DOMAIN content'.jsr = {}

\* S is a package that both the requirement A and the requirement B reach.
Shared(A, B, S) ==
  /\ A # B
  /\ S.kind # "req"
  /\ S \in Reachable(content, ReqNodes({A}))
  /\ S \in Reachable(content, ReqNodes({B}))

PackageNodes ==
  {[kind |-> "npm", id |-> id] : id \in DOMAIN content.npm}
    \cup {[kind |-> "jsr", id |-> id] : id \in DOMAIN content.jsr}

\* C8: when the package S is reached from both of the workspace's
\* requirements A and B, a set_workspace_config that drops A alone keeps S and
\* what B reaches and removes what only A reached; one that drops A and B
\* alone removes S, unless a requirement that stays reaches it.
C8_SharedDependencyKept ==
  [][Step("set_workspace_config") =>
       \A A \in OldReqs, B \in OldReqs : \A S \in PackageNodes :
         Shared(A, B, S) =>
           /\ OldReqs \ NewReqs = {A} =>
                /\ Kept({S})
                /\ Kept(Reachable(content, ReqNodes({B})))
                /\ Gone(Reachable(content, ReqNodes({A}))
                          \ Reachable(content, ReqNodes(OldReqs \ {A})))
           /\ (OldReqs \ NewReqs = {A, B}
                 /\ S \notin Reachable(content, ReqNodes(OldReqs \ {A, B})))
                => Gone({S})]_vars

\* C8: A was dropped from the loaded workspace: S and B's package are there,
\* A's package and the package only A reached are not.
C8_Witness ==
  /\ last.op = "set_workspace_config" /\ ops = 1 /\ source = DocGraph4
  /\ DOMAIN content.npm = {IdB, IdC, IdS}
  /\ DOMAIN content.specifiers = {ReqB, ReqC, ReqJ}
  /\ content.npm[IdS] = GraphContent.npm[IdS]

\* C9: after a set_workspace_config that takes requirements away, specifiers,
\* npm and jsr hold exactly the entries reachable from the old requirements
\* that are still requirements, each as it was before the call.
C9_ExactlyTheReachable ==
  [][(Step("set_workspace_config") /\ OldReqs \ NewReqs # {}) =>
       LET reached == Reachable(content, ReqNodes(OldReqs \cap NewReqs)) IN
       /\ DOMAIN content'.specifiers = Keys(reached, "req") \cap DOMAIN content.specifiers
       /\ DOMAIN content'.npm = Keys(reached, "npm") \cap DOMAIN content.npm
       /\ DOMAIN content'.jsr = Keys(reached, "jsr") \cap DOMAIN content.jsr
       /\ Kept(reached)]_vars

\* C9: A and B were dropped from the loaded workspace, and what the member's
\* requirement J reaches is what is left.
C9_Witness ==
  /\ last.op = "set_workspace_config" /\ ops = 1 /\ source = DocGraph4
  /\ get_all_dep_reqs(content.workspace) = {ReqJ}
  /\ DOMAIN content.npm = {IdC}
  /\ DOMAIN content.jsr = {IdJ}
  /\ DOMAIN content.specifiers = {ReqC, ReqJ}

\* verify_packages_content: every specifier names an npm or jsr id that is
\* there, every npm dependency id is there, and every jsr dependency
\* requirement has a specifier naming an id that is there.
Names(c, resolved) ==
  LET npm == StripPrefix(resolved, NpmPrefix)
      jsr == StripPrefix(resolved, JsrPrefix)
  IN IF npm.some THEN npm.s \in DOMAIN c.npm
     ELSE IF jsr.some THEN jsr.s \in DOMAIN c.jsr
     ELSE FALSE

ReferentialIntegrity(c) ==
  /\ \A r \in DOMAIN c.specifiers : Names(c, c.specifiers[r])
  /\ \A id \in DOMAIN c.npm : MapValues(c.npm[id].dependencies) \subseteq DOMAIN c.npm
  /\ \A id \in DOMAIN c.jsr : \A r \in c.jsr[id].dependencies :
       r \in DOMAIN c.specifiers /\ Names(c, c.specifiers[r])

\* C10: a set_workspace_config called on a content with referential integrity
\* leaves a content with referential integrity.
C10_IntegrityPreserved ==
  [][(Step("set_workspace_config") /\ ReferentialIntegrity(content))
       => ReferentialIntegrity(content')]_vars

\* C10: two changes of the loaded workspace in a row took packages away, and
\* what is left has referential integrity.
C10_Witness ==
  /\ last.op = "set_workspace_config" /\ ops = 2 /\ source = DocGraph4
  /\ ~overwrite /\ unwritten = {"workspace"}
  /\ DOMAIN content.npm = {IdC}
  /\ get_all_dep_reqs(content.workspace) = {ReqJ}
  /\ content.workspace.root.dependencies = {}
  /\ ReferentialIntegrity(content)

-----------------------------------------------------------------------------
(* Properties: set_workspace_config and has_content_changed *)

\* The step changes the workspace.
WorkspaceChanges == content'.workspace # content.workspace

\* The workspace the call records when it is made with `options` on the
\* workspace `w`.
Recorded(options, w) == WorkspaceConfigContent_update(WorkspaceConfig_new(options, w))

\* C11: set_workspace_config called first on the Lockfile new_empty gave, with
\* a config that records a workspace, leaves has_content_changed false, and
\* resolve_write_bytes called next with overwrite unset returns None.
C11_AttachToEmptyNotDirty ==
  [][/\ (Step("set_workspace_config") /\ ops = 0 /\ source = << >>
           /\ WorkspaceChanges)
          => ~has_content_changed'
     /\ (Step("resolve_write_bytes") /\ ~overwrite /\ ops = 1 /\ source = << >>
           /\ last.op = "set_workspace_config")
          => ~last'.ret.some]_vars

\* C11: a workspace was attached to a new Lockfile, and resolve_write_bytes
\* returned None.
C11_Witness ==
  /\ source = << >> /\ ~overwrite /\ ops = 2
  /\ last.op = "resolve_write_bytes" /\ ~last.ret.some
  /\ unwritten = {"attach"}
  /\ ~WorkspaceIsEmpty(content.workspace)
  /\ ~has_content_changed

C13_MoveWithinWorkspace ==
  [][(Step("set_workspace_config") /\ WorkspaceChanges
        /\ OldReqs = NewReqs /\ OldReqs # {})
       => /\ has_content_changed'
          /\ content'.specifiers = content.specifiers
          /\ content'.npm = content.npm
          /\ content'.jsr = content.jsr]_vars

\* C13: the requirement A of the loaded workspace's root was moved to the
\* member, and every package is still there.
C13_Witness ==
  /\ source = DocGraph4 /\ ops = 1 /\ last.op = "set_workspace_config"
  /\ ReqA \notin content.workspace.root.dependencies
  /\ MemberM \in DOMAIN content.workspace.members
  /\ ReqA \in content.workspace.members[MemberM].dependencies
  /\ has_content_changed
  /\ content.npm = GraphContent.npm
  /\ content.specifiers = GraphContent.specifiers

\* C14: a set_workspace_config that records the workspace there is changes
\* neither the content nor has_content_changed; and after any
\* set_workspace_config, the same options record the same workspace again.
C14_Idempotent ==
  [][Step("set_workspace_config") =>
       /\ ~WorkspaceChanges => UNCHANGED << content, has_content_changed >>
       /\ \A options \in WorkspaceCalls :
            set_workspace_config(options)
              => Recorded(options, content'.workspace) = content'.workspace]_vars

\* C14: the loaded workspace was changed, bytes were returned, and a
\* set_workspace_config that records the same workspace left the flag false
\* and the text as written.
C14_Witness ==
  /\ source = DocGraph4 /\ ops = 3 /\ writes = 1 /\ ~overwrite
  /\ last.op = "set_workspace_config"
  /\ content.workspace # GraphContent.workspace
  /\ ~has_content_changed /\ unwritten = {}
  /\ to_json.text = LockfileContent_to_json(content)

\* C15: after a set_workspace_config that takes a requirement away, and after
\* one that removes an entry of specifiers, npm or jsr, has_content_changed is
\* true.
C15_PruningDirty ==
  [][(Step("set_workspace_config")
        /\ \/ OldReqs \ NewReqs # {}
           \/ DOMAIN content'.specifiers # DOMAIN content.specifiers
           \/ DOMAIN content'.npm # DOMAIN content.npm
           \/ DOMAIN content'.jsr # DOMAIN content.jsr)
       => has_content_changed']_vars

\* C15: the member and its requirement were taken from the loaded workspace,
\* the jsr package went, and the flag is true.
C15_Witness ==
  /\ source = DocGraph4 /\ ops = 1 /\ last.op = "set_workspace_config"
  /\ DOMAIN content.workspace.members = {}
  /\ DOMAIN content.jsr = {}
  /\ IdC \notin DOMAIN content.npm
  /\ has_content_changed

-----------------------------------------------------------------------------
(* Properties: loading *)

\* The object a text holds.
SourceJson == ParseJsonMap(source)

\* The program started from with_lockfile_content with overwrite unset.
Loaded == constructor = [fn |-> "with_lockfile_content", overwrite |-> FALSE]

\* The version bytes carry.
WrittenVersion(text) == VersionOf(ParseJsonMap(text).m)

\* C16: right after a successful with_lockfile_content with overwrite unset
\* the content's version is "4", has_content_changed is false and
\* original_content is the text given; for a text with no version that maps
\* URLs to checksums, remote is that map; and the bytes returned later state
\* version "4".
C16_LoadingDoesNotRewrite ==
  /\ (Loaded /\ failure = NoFailure /\ ops = 0) =>
       /\ content.version = V4
       /\ ~has_content_changed
       /\ original_content = source
       /\ (~VersionOf(SourceJson.m).some /\ IsStrMap(SourceJson)) =>
            content.remote = [k \in DOMAIN SourceJson.m |-> SourceJson.m[k].s]
  /\ (Loaded /\ last.op = "resolve_write_bytes" /\ last.ret.some) =>
       WrittenVersion(last.ret.text) = [some |-> TRUE, s |-> V4]

\* C16: a text of version 2 was loaded, a call changed the content, and the
\* bytes returned state version "4".
C16_Witness ==
  /\ Loaded /\ source = DocNpm2 /\ ops = 2 /\ writes = 1
  /\ last.op = "resolve_write_bytes" /\ last.ret.some
  /\ WrittenVersion(source).s = V2
  /\ WrittenVersion(last.ret.text).s = V4
  /\ content.version = V4

\* C17: no call panics, and while the program runs the content's version is
\* "4".
C17_VersionAlways4 ==
  /\ failure.reason # "panic: only v4 lockfiles can be printed"
  /\ failure = NoFailure => (content.version = V4 /\ ~to_json.panic)

\* C17: a text of version 3 was loaded and bytes were returned twice, with the
\* content's version "4".
C17_Witness ==
  /\ Loaded /\ source = DocPackages3 /\ ops = 4 /\ writes = 2
  /\ failure = NoFailure /\ content.version = V4

\* C18: with_lockfile_content with overwrite unset, given a text whose
\* version is none of "2", "3" and "4", fails with UnsupportedVersion, the
\* version and the file's name, and no call follows.
C18_UnsupportedVersion ==
  (Loaded /\ ~IsBlank(source) /\ IsObj(SourceJson)
     /\ VersionOf(SourceJson.m).some
     /\ VersionOf(SourceJson.m).s \notin {V2, V3, V4})
    => /\ failure = LockfileError(DenoLock, "UnsupportedVersion",
                                  VersionOf(SourceJson.m).s)
       /\ ops = 0

\* C18: the text of version "2000" was refused.
C18_Witness ==
  /\ Loaded /\ source = DocFuture /\ ops = 0
  /\ failure.reason = "UnsupportedVersion"
  /\ failure.detail = VFuture
  /\ failure.filename = DenoLock

\* A text of nothing but white space, the text of no characters included.
WhiteSpaceOnly(text) == {text[i] : i \in DOMAIN text} \subseteq {WS, NL}

\* C19: with_lockfile_content with overwrite unset, given a text of nothing
\* but white space, fails with Empty and the file's name (not with the error
\* of parsing), and no call follows.
C19_EmptyText ==
  (Loaded /\ WhiteSpaceOnly(source))
    => /\ failure = LockfileError(DenoLock, "Empty", << >>)
       /\ ops = 0

\* C19: the text of white space was refused as empty.
C19_Witness ==
  /\ Loaded /\ source = DocBlank /\ ops = 0
  /\ failure.reason = "Empty" /\ failure.filename = DenoLock

\* C20: with_lockfile_content with overwrite set gives, whatever the text,
\* the Lockfile new_empty gives with overwrite set: no error, the empty
\* content of version "4", has_content_changed false, original_content empty.
C20_OverwriteIgnoresText ==
  (constructor = [fn |-> "with_lockfile_content", overwrite |-> TRUE] /\ ops = 0)
    => /\ failure = NoFailure
       /\ overwrite = new_empty(DenoLock, TRUE).overwrite
       /\ has_content_changed = new_empty(DenoLock, TRUE).has_content_changed
       /\ content = new_empty(DenoLock, TRUE).content
       /\ original_content = new_empty(DenoLock, TRUE).original_content
       /\ overwrite /\ content = LockfileContent_empty /\ content.version = V4
       /\ ~has_content_changed /\ original_content = << >>

\* C20: with overwrite set, a text that is no JSON gave the empty Lockfile.
C20_Witness ==
  /\ constructor = [fn |-> "with_lockfile_content", overwrite |-> TRUE]
  /\ source = DocBroken /\ ops = 0
  /\ failure = NoFailure /\ content = LockfileContent_empty

-----------------------------------------------------------------------------
(* Properties: the canonical text *)

\* The content read back from the text printed for c.
Reparsed(c) == LockfileContent_from_json(ParseJsonMap(LockfileContent_to_json(c)))

\* Every dependency of a jsr package is a key of specifiers.
JsrDepsResolved(c) ==
  \A id \in DOMAIN c.jsr : c.jsr[id].dependencies \subseteq DOMAIN c.specifiers

\* The members of the object whose first key is at token i: the keys, in the
\* order of the text, each with the index of its value.
RECURSIVE ObjectMembers(_, _, _)
ObjectMembers(toks, i, acc) ==
  IF i > Len(toks) \/ toks[i].p # "s" THEN acc
  ELSE ObjectMembers(toks, ParseValue(toks, i + 1).next,
                     Append(acc, [key |-> toks[i].s, at |-> i + 1]))

\* The keys of a text's object, in the order of the text.
TopKeys(text) ==
  LET members == ObjectMembers(SelectSeq(text, NotLayout), 2, << >>)
  IN [i \in 1..Len(members) |-> members[i].key]

\* The keys of the objects a text holds under each of the keys `sections`, in
\* the order of the text; none for a key the text does not have.
KeysBySection(text, sections) ==
  LET toks == SelectSeq(text, NotLayout)
      members == ObjectMembers(toks, 2, << >>)
      Inner(section) ==
        LET found == {i \in 1..Len(members) : members[i].key = section} IN
        IF found = {} THEN << >>
        ELSE ObjectMembers(toks, members[CHOOSE i \in found : TRUE].at + 1, << >>)
  IN [section \in sections |->
        LET inner == Inner(section) IN [i \in 1..Len(inner) |-> inner[i].key]]

\* The keys of the object a text holds under the key `section`, in the order
\* of the text; none when the text has no such key.
SectionKeys(text, section) == KeysBySection(text, {section})[section]

\* Strictly ascending, as strings compare.
Ascending(keys) == \A i, j \in 1..Len(keys) : i < j => StrLess(keys[i], keys[j])

\* The sections that are maps with keys of the caller's choosing.
MapSections == {KSpecifiers, KJsr, KNpm, KRedirects, KRemote}

\* The map of the content that is printed under a key.
SectionOf(c, section) ==
  CASE section = KSpecifiers -> c.specifiers
    [] section = KJsr -> c.jsr
    [] section = KNpm -> c.npm
    [] section = KRedirects -> c.redirects
    [] section = KRemote -> c.remote

\* The text printed for the content.
Canonical == LockfileContent_to_json(content)

C21_WitnessGraph ==
  /\ source = DocGraph4 /\ failure = NoFailure
  /\ SectionKeys(Canonical, KRemote) = << Url1, Url2 >>
  /\ \E id \in DOMAIN content.jsr : content.jsr[id].dependencies # {}
  /\ JsrDepsResolved(content)
  /\ Reparsed(content).content = content

\* The keys of a text's object, as a set.
TopKeySet(text) == LET keys == TopKeys(text) IN {keys[i] : i \in 1..Len(keys)}

\* resolve_write_bytes has just returned bytes.
BytesReturned == last.op = "resolve_write_bytes" /\ last.ret.some

HoldsSomething(section) ==
  IF section = KWorkspace THEN ~WorkspaceIsEmpty(content.workspace)
  ELSE DOMAIN SectionOf(content, section) # {}

\* The keys of the sections that hold something, in the order of the format.
SectionsHeld ==
  SelectSeq(<< KSpecifiers, KJsr, KNpm, KRedirects, KRemote, KWorkspace >>,
            HoldsSomething)

C23_WitnessAll ==
  /\ source = DocGraph4 /\ has_content_changed
  /\ TopKeys(to_json.text)
       = << KVersion, KSpecifiers, KJsr, KNpm, KRedirects, KRemote, KWorkspace >>

-----------------------------------------------------------------------------
(* Properties: the calls and has_content_changed *)

\* C24: a step that takes has_content_changed from true to false is a
\* resolve_write_bytes that returns bytes; every other call, one that undoes
\* the change included, leaves it true; and resolve_write_bytes clears it.
C24_MonotonicUntilReset ==
  [][ /\ (has_content_changed /\ ~has_content_changed')
          => (Step("resolve_write_bytes") /\ last'.ret.some)
      /\ (has_content_changed /\ \E op \in Mutators \cup {"set_workspace_config"} :
                                   Step(op))
          => has_content_changed'
      /\ (has_content_changed /\ Step("resolve_write_bytes"))
          => ~has_content_changed'
    ]_vars

\* C24: on an empty lockfile a redirect was inserted and removed again: the
\* content is empty as it was and has_content_changed is still true.
C24_Witness ==
  /\ source = << >> /\ ~overwrite /\ writes = 0
  /\ last.op = "remove_redirect" /\ last.ret.some
  /\ content = LockfileContent_empty
  /\ has_content_changed

\* C25: insert_redirect with a key that starts with `jsr:` changes nothing,
\* whatever the target and whether or not the key is stored: content,
\* has_content_changed and every other field are as they were.
C25_JsrRedirectIgnored ==
  [][ \A call \in RedirectCalls :
        (Step("insert_redirect") /\ insert_redirect(call[1], call[2])
           /\ StartsWith(call[1], JsrPrefix))
          => UNCHANGED << content, has_content_changed, overwrite,
                          original_content, failure, unwritten, writes >>
    ]_vars

\* C25: a text with a redirect from a `jsr:` key was loaded and
\* insert_redirect was called with that key: the redirect, whose target is
\* not the one of every such call, is stored as it was and the flag is false.
C25_Witness ==
  /\ source = DocJsrRedirect4 /\ ops = 1 /\ last.op = "insert_redirect"
  /\ content.redirects = MapOf(<< << FromJsr, To2 >> >>)
  /\ \E call \in RedirectCalls : call[1] = FromJsr /\ call[2] # To2
  /\ ~has_content_changed

\* insert_redirect was called with a `jsr:` key that is not stored, and
\* nothing is stored.
C25_WitnessAbsent ==
  /\ source = << >> /\ ops = 1 /\ last.op = "insert_redirect"
  /\ content = LockfileContent_empty /\ ~has_content_changed

\* C26: add_package_deps on a jsr package that is stored leaves the package
\* with the union of its requirements and the given ones and changes nothing
\* else of the content; has_content_changed is true afterwards when a given
\* requirement was not among them, and content and flag are unchanged when
\* all were, or when the package is not stored.
C26_DepsUnion ==
  [][ \A call \in DepsCallsCodec :
        (Step("add_package_deps") /\ add_package_deps(call[1], call[2])) =>
          IF call[1] \in DOMAIN content.jsr
            THEN LET before == content.jsr[call[1]].dependencies
                     given == StrSet(call[2])
                 IN /\ content' = [content EXCEPT
                                     !.jsr[call[1]].dependencies = before \cup given]
                    /\ ~(given \subseteq before) => has_content_changed'
                    /\ given \subseteq before
                         => UNCHANGED << content, has_content_changed >>
            ELSE UNCHANGED << content, has_content_changed >>
    ]_vars

\* C26: after bytes were returned, add_package_deps was called with two
\* requirements of which the package had one: it has both and
\* has_content_changed is true.
C26_Witness ==
  /\ source = << >> /\ ~overwrite /\ writes = 1
  /\ last.op = "add_package_deps" /\ unwritten = {"mutator"}
  /\ SectionKeys(original_content, KJsr) = << IdJ >>
  /\ Has(ParseJsonMap(original_content).m[KJsr].m[IdJ].m, KDependencies)
  /\ ParseJsonMap(original_content).m[KJsr].m[IdJ].m[KDependencies]
       = JArr(<< JStr(ReqC) >>)
  /\ content.jsr[IdJ].dependencies = {ReqC, ReqD}
  /\ has_content_changed

\* add_package_deps was called for a package that is not stored, or with
\* requirements the package has, and nothing changed.
C26_WitnessNoOp ==
  /\ source = DocGraph4 /\ ops = 1 /\ last.op = "add_package_deps"
  /\ ~has_content_changed /\ unwritten = {}

-----------------------------------------------------------------------------
(* Properties: set_workspace_config *)

-----------------------------------------------------------------------------
(* Properties: has_content_changed and the content *)

\* The content the constructor gave.
ContentAtLoad ==
  IF constructor.fn = "new_empty" \/ constructor.overwrite
    THEN LockfileContent_empty
    ELSE load_content(source).content

\* The content has_content_changed is measured from: the content the
\* constructor gave, or the content read from the bytes returned last.
ContentAtBaseline ==
  IF writes = 0 THEN [err |-> "none", content |-> ContentAtLoad]
  ELSE LockfileContent_from_json(ParseJsonMap(original_content))

\* C28, as stated: while has_content_changed is true the content differs from
\* the content at load time, or from the content of the bytes returned last.
C28_Original ==
  (failure = NoFailure /\ has_content_changed) =>
    LET baseline == ContentAtBaseline
    IN baseline.err = "none" => content # baseline.content

\* C28: while has_content_changed is true, a call since the constructor, or
\* since bytes were returned last, has inserted, changed or removed a stored
\* value (the content may be the same again).
C28_DirtyAfterChange ==
  has_content_changed => unwritten \cap {"mutator", "workspace"} # {}

\* C28: a redirect was inserted in a loaded lockfile and removed again:
\* has_content_changed is true and the content is the content loaded.
C28_Witness ==
  /\ source # << >> /\ failure = NoFailure /\ writes = 0
  /\ last.op = "remove_redirect" /\ last.ret.some
  /\ has_content_changed /\ unwritten = {"mutator"}
  /\ content = ContentAtLoad

\* The same after bytes were returned: the content is the content of the
\* bytes.
C28_WitnessWritten ==
  /\ writes = 1 /\ failure = NoFailure
  /\ last.op = "remove_redirect" /\ last.ret.some
  /\ has_content_changed /\ unwritten = {"mutator"}
  /\ ContentAtBaseline = [err |-> "none", content |-> content]

-----------------------------------------------------------------------------
(* Properties: pruning *)

\* The dependencies of jsr packages that are no key of specifiers.
DanglingJsrDeps(c) ==
  {r \in UNION {c.jsr[id].dependencies : id \in DOMAIN c.jsr} :
     r \notin DOMAIN c.specifiers}

\* The specifiers that name a package that is not stored.
DanglingSpecifiers(c) ==
  {r \in DOMAIN c.specifiers : ~Names(c, c.specifiers[r])}

\* What the pruning of set_workspace_config gives for the content when the
\* call is made with `options`: parts of the content's sections.
PrunedSections(options) ==
  LET workspace == Recorded(options, content.workspace)
      packages ==
        RemainingPackages(content, get_all_dep_reqs(content.workspace),
                          removed_deps(content.workspace, workspace))
  IN /\ DOMAIN packages.specifiers \subseteq DOMAIN content.specifiers
     /\ DOMAIN packages.npm \subseteq DOMAIN content.npm
     /\ DOMAIN packages.jsr \subseteq DOMAIN content.jsr

\* C29: whatever the content holds, the pruning of set_workspace_config gives
\* parts of its sections for every config, and when the content has a jsr dependency that is no key of
\* specifiers, or a specifier that names a package that is not stored, the
\* call ends without a failure; where it takes requirements away it leaves
\* exactly what the requirements that stay reach over the edges that lead
\* somewhere, each entry as it was, its dangling dependencies included.
C29_PruningNeverFails ==
  [][ \A options \in PruneCalls :
        /\ PrunedSections(options)
        /\ (/\ Step("set_workspace_config") /\ set_workspace_config(options)
            /\ DanglingJsrDeps(content) \cup DanglingSpecifiers(content) # {})
             => /\ failure' = NoFailure
                /\ last' = [op |-> "set_workspace_config", ret |-> NoReturn]
                /\ OldReqs \ NewReqs # {} =>
                     LET reached == Reachable(content, ReqNodes(OldReqs \cap NewReqs))
                     IN /\ DOMAIN content'.specifiers
                             = Keys(reached, "req") \cap DOMAIN content.specifiers
                        /\ DOMAIN content'.npm = Keys(reached, "npm") \cap DOMAIN content.npm
                        /\ DOMAIN content'.jsr = Keys(reached, "jsr") \cap DOMAIN content.jsr
                        /\ Kept(reached)
                        /\ DanglingJsrDeps(content') \subseteq DanglingJsrDeps(content)
                        /\ DanglingSpecifiers(content') \subseteq DanglingSpecifiers(content)
    ]_vars

\* C29: the jsr package J was given a dependency that is no key of
\* specifiers, and a set_workspace_config then took A's packages away: J is
\* there with that dependency, and what its other dependency reaches as well.
C29_Witness ==
  /\ source = DocGraph4 /\ ops = 2 /\ failure = NoFailure
  /\ last.op = "set_workspace_config"
  /\ IdA \notin DOMAIN content.npm
  /\ IdJ \in DOMAIN content.jsr
  /\ content.jsr[IdJ].dependencies = {ReqC, ReqD}
  /\ DanglingJsrDeps(content) = {ReqD}
  /\ IdC \in DOMAIN content.npm

\* C29: J's dependency D was given a specifier that names a package that is
\* not stored, and a set_workspace_config then took A's packages away: the
\* specifier is there, and no package for it.
C29_WitnessSpecifier ==
  /\ source = DocGraph4 /\ ops = 3 /\ failure = NoFailure
  /\ last.op = "set_workspace_config"
  /\ IdA \notin DOMAIN content.npm
  /\ IdJ \in DOMAIN content.jsr
  /\ content.jsr[IdJ].dependencies = {ReqC, ReqD}
  /\ DanglingSpecifiers(content) = {ReqD}
  /\ IdZ \notin DOMAIN content.npm
  /\ IdC \in DOMAIN content.npm

\* The npm packages that are on a cycle of dependencies with the package
\* `id`: `id` reaches them and they reach `id`, each in a step or more.
CycleOf(c, id) ==
  {other \in DOMAIN c.npm :
     /\ NpmNode(other) \in Reachable(c, RefersTo(c, NpmNode(id)))
     /\ NpmNode(id) \in Reachable(c, RefersTo(c, NpmNode(other)))}

\* The cycles of npm packages of a content.
Cycles(c) == {CycleOf(c, id) : id \in DOMAIN c.npm} \ {{}}

\* C30: a set_workspace_config that takes requirements away follows the edges
\* of each node it reaches once, and of every cycle of npm packages
\* (a package that depends on itself is one) it keeps every package as it
\* was when a requirement that stays reaches the cycle, and removes every
\* package when none does.
C30_CyclesWhole ==
  [][(Step("set_workspace_config") /\ OldReqs \ NewReqs # {}) =>
       LET left == ReqNodes(OldReqs \cap NewReqs)
           graph == from_lockfile(content.npm, content.jsr, content.specifiers, OldReqs)
           order == TraverseOrder(graph, left, left, << >>)
           reached == Reachable(content, left)
       IN /\ \A i \in 1..Len(order), j \in 1..Len(order) : order[i] = order[j] => i = j
          /\ {order[i] : i \in 1..Len(order)} = Traverse(graph, left, left)
          /\ \A cycle \in Cycles(content) :
               IF \E id \in cycle : NpmNode(id) \in reached
                 THEN \A id \in cycle : Stored(content'.npm, id, content.npm[id])
                 ELSE cycle \cap DOMAIN content'.npm = {}]_vars

\* C30: the member and its requirement were taken from the loaded workspace:
\* A and X, which depend on each other, are both there as they were.
C30_Witness ==
  /\ source = DocGraph4 /\ ops = 1 /\ last.op = "set_workspace_config"
  /\ IdJ \notin DOMAIN content.jsr
  /\ Stored(content.npm, IdA, GraphContent.npm[IdA])
  /\ Stored(content.npm, IdX, GraphContent.npm[IdX])
  /\ CycleOf(content, IdA) = {IdA, IdX}

\* The requirement A was taken from the loaded workspace: A and X are both
\* gone.
C30_WitnessRemoved ==
  /\ source = DocGraph4 /\ ops = 1 /\ last.op = "set_workspace_config"
  /\ DOMAIN content.npm \cap {IdA, IdX} = {}
  /\ IdB \in DOMAIN content.npm

\* S was made to depend on itself, and A was taken from the workspace: S,
\* which B reaches, is there and depends on itself.
C30_WitnessSelf ==
  /\ source = DocGraph4 /\ ops = 2 /\ last.op = "set_workspace_config"
  /\ IdA \notin DOMAIN content.npm
  /\ IdS \in DOMAIN content.npm
  /\ CycleOf(content, IdS) = {IdS}

\* S was made to depend on itself, and A and B were taken from the workspace:
\* S is gone.
C30_WitnessSelfRemoved ==
  /\ source = DocGraph4 /\ ops = 2 /\ last.op = "set_workspace_config"
  /\ unwritten = {"mutator", "workspace"}
  /\ DOMAIN content.npm \cap {IdA, IdB, IdS} = {}
  /\ IdJ \in DOMAIN content.jsr

-----------------------------------------------------------------------------
(* Properties: LockfileContent::from_json *)

\* The JSON value from_json was given.
GivenJson == ParseJsonValue(source)

\* from_json has returned Ok.
FromJsonOk == last.op = "from_json" /\ failure = NoFailure

\* C31, as stated: from_json gives, for an object without a string `version`,
\* a content of version "4", and for a value that is no object the empty
\* content, without an error.
C31_Original ==
  last.op = "from_json" =>
    LET json == GivenJson IN
    /\ (IsObj(json) /\ failure = NoFailure
          /\ ~(Has(json.m, KVersion) /\ IsStr(json.m[KVersion])))
         => content.version = V4
    /\ ~IsObj(json) => (failure = NoFailure /\ content = LockfileContent_empty)

\* What from_json does there: the version of an object without a string
\* `version` is "3", the version of an object with one is that string, and a
\* value that is no object gives the empty content of version "4".
C31_VersionDefault ==
  FromJsonOk =>
    LET json == GivenJson IN
    IF ~IsObj(json) THEN content = LockfileContent_empty
    ELSE IF Has(json.m, KVersion) /\ IsStr(json.m[KVersion])
      THEN content.version = json.m[KVersion].s
      ELSE content.version = V3

\* from_json was given an object with no `version` and no section, and gave
\* a content of version "3".
C31_Witness ==
  /\ FromJsonOk /\ source = << LBrace, RBrace >>
  /\ content = [LockfileContent_empty EXCEPT !.version = V3]

\* The keys of a section of the JSON given, when the section is an object.
GivenKeys(section) ==
  LET json == GivenJson IN
  IF IsObj(json) /\ Has(json.m, section) /\ IsObj(json.m[section])
    THEN DOMAIN json.m[section].m ELSE {}

\* A key of the `specifiers` given has fewer characters than `npm:@`.
ShortSpecifierGiven == \E key \in GivenKeys(KSpecifiers) : Len(key) < PrefixLen

\* C32, as stated: whenever a key of `specifiers` has fewer than 5
\* characters, from_json fails with InvalidPackageSpecifier, with a jsr
\* section or without one.
C32_Original ==
  (last.op = "from_json" /\ ShortSpecifierGiven)
    => failure.reason = "InvalidPackageSpecifier"

\* C32: from_json fails with InvalidPackageSpecifier exactly when a key of
\* `specifiers` has fewer than 5 characters and `jsr` holds a package; with
\* such a key and no jsr package it returns a content that has the key.
C32_InvalidSpecifierWithJsr ==
  last.op = "from_json" =>
    /\ failure.reason = "InvalidPackageSpecifier"
         <=> (ShortSpecifierGiven /\ GivenKeys(KJsr) # {})
    /\ (ShortSpecifierGiven /\ GivenKeys(KJsr) = {})
         => /\ failure = NoFailure
            /\ DOMAIN content.specifiers = GivenKeys(KSpecifiers)
            /\ content.jsr = EmptyMap

\* C32: a short key and a jsr package were given, and from_json failed with
\* InvalidPackageSpecifier.
C32_Witness ==
  /\ last.op = "from_json"
  /\ GivenKeys(KSpecifiers) = {ShortKey} /\ GivenKeys(KJsr) = {IdJ}
  /\ failure.reason = "InvalidPackageSpecifier"

\* A short key was given and a `jsr` without packages, and from_json returned
\* a content with the key.
C32_WitnessAccepted ==
  /\ FromJsonOk
  /\ Has(GivenJson.m, KJsr) /\ GivenKeys(KJsr) = {}
  /\ GivenKeys(KSpecifiers) = {ShortKey}
  /\ DOMAIN content.specifiers = {ShortKey}

\* `key` is `name`, an '@' and a requirement: the '@' is the first one after
\* the first five characters.
HasName(key, name) ==
  \E i \in (PrefixLen + 1)..Len(key) :
    /\ key[i] = "@"
    /\ \A j \in (PrefixLen + 1)..(i - 1) : key[j] # "@"
    /\ SubSeq(key, 1, i - 1) = name

\* The keys of `specifiers` that a raw jsr dependency may stand for: itself
\* when it is a key, else the keys of its name that have a requirement.
Candidates(dep) ==
  LET keys == GivenKeys(KSpecifiers) IN
  IF dep \in keys THEN {dep} ELSE {key \in keys : HasName(key, dep)}

\* The dependencies the raw jsr package J was given.
GivenDeps ==
  LET package == GivenJson.m[KJsr].m[IdJ].m IN
  IF Has(package, KDependencies)
    THEN {package[KDependencies].a[i].s : i \in 1..Len(package[KDependencies].a)}
    ELSE {}

\* C33: when from_json is given a jsr package and specifiers that can all be
\* split, a dependency that is a key of specifiers stays as it is, a name
\* that is no key becomes the first key, in the order of the keys, of that
\* name with a requirement, and when a dependency is neither, from_json
\* panics and returns no DeserializationError.
C33_JsrDepsResolved ==
  (last.op = "from_json" /\ IdJ \in GivenKeys(KJsr) /\ ~ShortSpecifierGiven) =>
    LET deps == GivenDeps IN
    IF \E dep \in deps : Candidates(dep) = {}
      THEN failure.reason = "panic: not yet implemented"
      ELSE /\ failure = NoFailure
           /\ DOMAIN content.jsr = {IdJ}
           /\ content.jsr[IdJ].dependencies =
                {CHOOSE key \in Candidates(dep) :
                   \A other \in Candidates(dep) \ {key} : StrLess(key, other) :
                 dep \in deps}

\* C33: two specifiers of one name were given, and a jsr package that
\* depends on the name: it depends on the first of them.
C33_Witness ==
  /\ FromJsonOk
  /\ GivenKeys(KSpecifiers) = {ReqA, ReqA2} /\ IdJ \in GivenKeys(KJsr)
  /\ GivenDeps = {BareA}
  /\ content.jsr[IdJ].dependencies = {ReqA}

\* The name is a key itself: the dependency stays the name.
C33_WitnessUnchanged ==
  /\ FromJsonOk
  /\ GivenKeys(KSpecifiers) = {ReqA, ReqA2, BareA} /\ IdJ \in GivenKeys(KJsr)
  /\ GivenDeps = {BareA, ReqA2}
  /\ content.jsr[IdJ].dependencies = {BareA, ReqA2}

\* The dependency is no key and no name of a key: from_json panicked.
C33_WitnessPanic ==
  /\ last.op = "from_json"
  /\ GivenKeys(KSpecifiers) = {ReqA} /\ IdJ \in GivenKeys(KJsr)
  /\ GivenDeps = {ReqB}
  /\ failure.reason = "panic: not yet implemented"

-----------------------------------------------------------------------------
(* Properties: what a call leaves alone *)

\* C34: remove_redirect(from) with a key of redirects removes the entry,
\* returns its target and leaves has_content_changed true; with any other
\* `from` it returns None and leaves redirects and has_content_changed as
\* they were.  In both cases every other section, overwrite and
\* original_content are as they were.
C34_RemoveRedirect ==
  [][ \A from \in RemoveCalls :
        (Step("remove_redirect") /\ remove_redirect(from)) =>
          /\ IF from \in DOMAIN content.redirects
               THEN /\ DOMAIN content'.redirects = DOMAIN content.redirects \ {from}
                    /\ \A key \in DOMAIN content'.redirects :
                         content'.redirects[key] = content.redirects[key]
                    /\ last'.ret = Returned(<< TStr(content.redirects[from]) >>)
                    /\ has_content_changed'
               ELSE /\ last'.ret = NoReturn
                    /\ UNCHANGED << content, has_content_changed >>
          /\ content' = [content EXCEPT !.redirects = content'.redirects]
          /\ UNCHANGED << overwrite, original_content, failure >>
    ]_vars

\* C34: of the two redirects a lockfile had, remove_redirect removed one and
\* returned its target: the other is there and has_content_changed is true.
C34_Witness ==
  /\ source = DocJsrRedirect4 /\ ops = 2 /\ last.op = "remove_redirect"
  /\ last.ret = Returned(<< TStr(To1) >>)
  /\ DOMAIN content.redirects = {FromJsr}
  /\ content.redirects[FromJsr] = To2
  /\ has_content_changed

\* remove_redirect was called with a key that is not stored, right after the
\* lockfile was loaded: None, and has_content_changed is false.
C34_WitnessAbsent ==
  /\ source = DocJsrRedirect4 /\ ops = 1 /\ last.op = "remove_redirect"
  /\ last.ret = NoReturn
  /\ DOMAIN content.redirects = {FromJsr}
  /\ ~has_content_changed

C35_WitnessOverwrite ==
  /\ source = << >> /\ overwrite /\ ops = 2 /\ last.op = "set_workspace_config"
  /\ DOMAIN content.remote = {Url1}
  /\ ~WorkspaceIsEmpty(content.workspace)

\* C36: insert_package for a jsr package that is stored leaves the package
\* with the integrity given and the dependencies it had, and nothing else of
\* the content differs; has_content_changed is true afterwards when the
\* integrity differed, and is as it was when it did not.
C36_IntegrityOnly ==
  [][ \A call \in PackageCalls :
        (/\ Step("insert_package") /\ insert_package(call[1], call[2])
         /\ call[1] \in DOMAIN content.jsr) =>
          LET before == content.jsr[call[1]] IN
          /\ content'.jsr[call[1]] =
               [integrity |-> call[2], dependencies |-> before.dependencies]
          /\ content' = [content EXCEPT !.jsr[call[1]].integrity = call[2]]
          /\ has_content_changed' =
               (before.integrity # call[2] \/ has_content_changed)
    ]_vars

\* C36: insert_package was called with another integrity for the package J
\* of the loaded lockfile: J has that integrity and the dependency it had.
C36_Witness ==
  /\ source = DocGraph4 /\ ops = 1 /\ last.op = "insert_package"
  /\ content.jsr[IdJ] = [integrity |-> Int2, dependencies |-> {ReqC}]
  /\ GraphContent.jsr[IdJ] = [integrity |-> Int1, dependencies |-> {ReqC}]
  /\ has_content_changed

\* insert_package was called with the integrity J has: nothing changed.
C36_WitnessSame ==
  /\ source = DocGraph4 /\ ops = 1 /\ last.op = "insert_package"
  /\ content = GraphContent /\ ~has_content_changed

-----------------------------------------------------------------------------
(* Properties: a workspace attached to an empty lockfile *)

\* A workspace was recorded in a lockfile that held nothing, no call since
\* has set has_content_changed, and overwrite is unset.
AttachedOnly ==
  /\ failure = NoFailure /\ ~overwrite /\ ~has_content_changed
  /\ "attach" \in unwritten

\* The workspace a text holds.
WorkspaceOfText(text) == DeserializeWorkspace(ParseJsonMap(text).m, KWorkspace).v

\* C37: while a workspace attached to an empty lockfile has not set
\* has_content_changed, to_json gives original_content and resolve_write_bytes
\* gives None and changes nothing; no call but set_workspace_config changes
\* the workspace; and the first bytes returned after the workspace was
\* attached hold the workspace the content has then.
C37_AttachedWorkspaceKept ==
  [][/\ AttachedOnly =>
          /\ to_json = [panic |-> FALSE, text |-> original_content]
          /\ ~WorkspaceIsEmpty(content.workspace)
     /\ (AttachedOnly /\ Step("resolve_write_bytes")) =>
          /\ ~last'.ret.some
          /\ UNCHANGED << content, has_content_changed, original_content, unwritten >>
     /\ (\E op \in Mutators \cup {"resolve_write_bytes"} : Step(op)) =>
          content'.workspace = content.workspace
     /\ ("attach" \in unwritten /\ Step("resolve_write_bytes") /\ last'.ret.some) =>
          /\ WorkspaceOfText(last'.ret.text) = content.workspace
          /\ ~WorkspaceIsEmpty(content.workspace)
               => KWorkspace \in TopKeySet(last'.ret.text)
          /\ original_content' = last'.ret.text
    ]_vars

\* C37: a workspace was attached to a new lockfile: has_content_changed is
\* false and to_json gives the text of no characters.
C37_Witness ==
  /\ source = << >> /\ ~overwrite /\ ops = 1 /\ last.op = "set_workspace_config"
  /\ AttachedOnly /\ unwritten = {"attach"}
  /\ ~WorkspaceIsEmpty(content.workspace)
  /\ to_json.text = << >>

\* A workspace was attached to a new lockfile, a remote entry inserted, and
\* bytes returned: they hold the workspace.
C37_WitnessWritten ==
  /\ source = << >> /\ ~overwrite /\ ops = 3 /\ writes = 1
  /\ last.op = "resolve_write_bytes" /\ last.ret.some
  /\ DOMAIN content.remote = {Url1}
  /\ LockfileContent_is_empty([content EXCEPT !.remote = EmptyMap,
                                                !.workspace = EmptyWorkspace])
  /\ ~WorkspaceIsEmpty(content.workspace)
  /\ KWorkspace \in TopKeySet(last.ret.text)
  /\ WorkspaceOfText(last.ret.text) = content.workspace

====
